---------------------------- MODULE Spec2Model ----------------------------
(***************************************************************************)
(* State-machine model of video-player-plus: the App shell (playlist,      *)
(* selection, view), the two studios (ImageStudio, VeoStudio) with the     *)
(* geminiService calls they await, the GeminiAssistant chat panel and the  *)
(* LiveView session panel.                                                 *)
(*                                                                         *)
(* Every React event handler is one action for its synchronous part; each  *)
(* await in an async handler ends the action, and the continuation that    *)
(* runs when the awaited promise settles is a further action.  A handler   *)
(* closure reads the state of the render it was created in, so the values  *)
(* an async handler keeps using after an await (prompt, activeTab, ...)    *)
(* are stored in the record of the call.  null / undefined is the string   *)
(* NULL.  lastOp names the operation the last step executed (a label for   *)
(* stating properties of single operations; no handler reads it).          *)
(***************************************************************************)
EXTENDS Integers, Sequences, FiniteSets, TLC

VARIABLES
    \* App
    currentView, playlist, currentMediaId,
    \* ImageStudio
    imgPrompt, isProcessing, activeTab, selectedImageForEdit, imgError, imgCalls,
    \* VeoStudio
    veoPrompt, isGenerating, veoError, inputImage, veoCalls, veoStale,
    \* GeminiAssistant
    messages, input, isThinking, chatSession, contextImage, playingMessageId,
    chatCalls, speakCalls, audioContextRef, chatMounted,
    \* LiveView
    connected, status, isMuted, inputAudioContextRef, outputAudioContextRef,
    sessionPromiseRef, liveContexts, liveCalls, sentAudio, nextStartTimeRef,
    liveClocks, liveDecoding, scheduled, inputData, pcmBlob,
    \* Player
    videoRef, gainNodeRef, volume, elementVolume, gain, loop, currentTime, progress,
    duration, subtitles, subtitleOffset, subtitleText, osdMessage, osdTimeoutRef,
    osdTimers, playerClock,
    media, audioCtxRef, eqValues, eqNodesRef, audioDelay, delayNodeRef,
    isPlaying, playbackRate, playerIsMuted, brightness, contrast, saturation, rotation,
    scale,
    \* window.aistudio (environment of both studios)
    aistudio, hasKey,
    \* trace label
    lastOp

\* The audio of LiveView: the microphone chunks sent, the playback cursor, the
\* clocks of the audio contexts, the onmessage handlers at their await, the
\* chunks given to source.start, the samples the microphone delivers and the
\* samples of the chunk sent last.
liveAudio == <<sentAudio, nextStartTimeRef, liveClocks, liveDecoding, scheduled, inputData,
               pcmBlob>>

appVars == <<currentView, playlist, currentMediaId>>
imgVars == <<imgPrompt, isProcessing, activeTab, selectedImageForEdit, imgError, imgCalls>>
veoVars == <<veoPrompt, isGenerating, veoError, inputImage, veoCalls, veoStale>>
chatVars == <<messages, input, isThinking, chatSession, contextImage, playingMessageId,
              chatCalls, speakCalls, audioContextRef, chatMounted>>
liveVars == <<connected, status, isMuted, inputAudioContextRef, outputAudioContextRef,
              sessionPromiseRef, liveContexts, liveCalls, liveAudio>>
playerVars == <<videoRef, gainNodeRef, volume, elementVolume, gain, loop, currentTime,
                progress, duration, subtitles, subtitleOffset, subtitleText, osdMessage,
                osdTimeoutRef, osdTimers, playerClock, media, audioCtxRef, eqValues,
                eqNodesRef, audioDelay, delayNodeRef, isPlaying, playbackRate,
                playerIsMuted, brightness, contrast, saturation, rotation, scale>>
envVars == <<aistudio, hasKey>>
vars == <<appVars, imgVars, veoVars, chatVars, liveVars, playerVars, envVars, lastOp>>

\* What the operations of one component leave alone.
appOthers == <<imgVars, veoVars, chatVars, liveVars, playerVars, envVars>>
imgOthers == <<currentView, currentMediaId, veoVars, chatVars, liveVars, playerVars>>
veoOthers == <<currentView, currentMediaId, veoStale, imgVars, chatVars, liveVars,
               playerVars>>
chatOthers == <<appVars, imgVars, veoVars, liveVars, playerVars, envVars>>
liveOthers == <<playlist, currentMediaId, imgVars, veoVars, chatVars, playerVars, envVars,
                liveAudio>>
\* The operations of Player on volume, position, subtitles and the OSD leave the
\* other components alone, and the media, the audio settings and the picture.
playerAudio == <<media, audioCtxRef, eqValues, eqNodesRef, audioDelay, delayNodeRef>>
playerPicture == <<isPlaying, playbackRate, playerIsMuted, brightness, contrast,
                   saturation, rotation, scale>>
playerOthers == <<appVars, imgVars, veoVars, chatVars, liveVars, envVars, playerAudio,
                  playerPicture>>

NULL == "null"

(***************************************************************************)
(* Bounds of the model.                                                    *)
(***************************************************************************)
MaxPlaylist == 3    \* playlist entries
MaxFiles == 2       \* files in one upload
MaxImgCalls == 2    \* handleAction calls of ImageStudio that pass the guard
MaxVeoCalls == 1    \* handleGenerate calls of VeoStudio that pass the guard
MaxPolls == 2       \* getVideosOperation polls of one generateVeoVideo call
MaxSends == 2       \* handleSend calls of GeminiAssistant that pass the guard
MaxSpeaks == 1      \* handleSpeak calls in progress at a time
MaxOverlap == 2     \* the same, where speech of several messages is explored
MaxTurns == 1       \* accepted handleSend calls where sending and speech are explored together
MaxStarts == 2      \* startSession calls of LiveView
MaxTime == 3        \* the media's duration in seconds; positions are whole seconds
MaxCues == 2        \* cues of a loaded subtitle file
MaxClock == 4       \* seconds of Player time explored
MaxMicChunks == 2   \* microphone chunks sent to the live sessions
MaxChunks == 2      \* audio messages of the live sessions handled
MaxLiveTime == 1    \* seconds of audio context time explored

(***************************************************************************)
(* Helpers on sequences.                                                   *)
(***************************************************************************)
SeqsUpTo(S, n) == UNION {[1..k -> S] : k \in 0..n}

\* Math.min, Math.max
Min(a, b) == IF a <= b THEN a ELSE b

Max(a, b) == IF a >= b THEN a ELSE b

(***************************************************************************)
(* App (src/components/LiveView.tsx 613-729) and Sidebar.                  *)
(***************************************************************************)
ViewMode == {"PLAYER", "VEO_STUDIO", "IMAGE_STUDIO", "LIVE"}

\* A File of a FileList: its name and its MIME type as <<type, subtype>>.
Files ==
    { [name |-> "a.mp4", mime |-> <<"video", "mp4">>],
      [name |-> "b.mp3", mime |-> <<"audio", "mpeg">>],
      [name |-> "c.png", mime |-> <<"image", "png">>] }

StreamUrls == {"http://host/live.m3u8"}

\* generateId(): Math.random ids, modelled as fresh: the k-th item made gets k.
\* No operation removes an item, so the playlist length counts the items made.
generateId(k) == ToString(Len(playlist) + k)

\* file.type.startsWith('video') ? 'video' : startsWith('audio') ? 'audio' : 'image'
MediaType(file) ==
    IF file.mime[1] = "video" THEN "video"
    ELSE IF file.mime[1] = "audio" THEN "audio"
    ELSE "image"

\* Array.from(files).map(file => ({...})) of handleUpload
NewItems(files) ==
    [i \in 1..Len(files) |->
        [id |-> generateId(i), name |-> files[i].name,
         url |-> "blob:" \o files[i].name, type |-> MediaType(files[i]),
         mimeType |-> files[i].mime[1] \o "/" \o files[i].mime[2],
         isStream |-> FALSE]]

\* Fault injection for UploadAppendsInOrder: the new items put in front.
AppendItemsInFront(prev, newItems) == newItems \o prev

\* Fault injection for SelectionIsInPlaylist: the first new item is lost.
AppendItemsButFirst(prev, newItems) == prev \o Tail(newItems)

\* setPlaylist(prev => [...prev, ...newItems])
AppendItems(prev, newItems) == prev \o newItems

\* Fault injection for PlaylistOnlyGrows: the new item replaces the first one.
PrependItemReplacing(prev, newItem) == <<newItem>> \o SubSeq(prev, 2, Len(prev))

\* setPlaylist(prev => [newItem, ...prev])
PrependItem(prev, newItem) == <<newItem>> \o prev

\* Fault injection for SelectionOnlyWhenStated: an upload always selects.
handleUploadSelecting(files) ==
    LET newItems == NewItems(files) IN
    /\ playlist' = AppendItems(playlist, newItems)
    /\ currentMediaId' = newItems[1].id
    /\ currentView' = "PLAYER"

\* App.handleUpload(files)
handleUpload(files) ==
    LET newItems == NewItems(files) IN
    /\ playlist' = AppendItems(playlist, newItems)
    /\ IF currentMediaId = NULL /\ Len(newItems) > 0
       THEN /\ currentMediaId' = newItems[1].id
            /\ currentView' = "PLAYER"
       ELSE UNCHANGED <<currentMediaId, currentView>>

\* Sidebar.handleFileChange: the change event of the file input, which calls
\* onUpload = App.handleUpload when at least one file was chosen.
SidebarHandleFileChange ==
    \E files \in SeqsUpTo(Files, MaxFiles) :
        /\ Len(playlist) + Len(files) <= MaxPlaylist
        /\ IF Len(files) > 0
           THEN handleUpload(files) /\ lastOp' = "handleUpload"
           ELSE UNCHANGED appVars /\ lastOp' = "handleFileChange.empty"
        /\ UNCHANGED appOthers

\* Sidebar.handleAddStream -> App.handleAddStream(url); prompt() returned url.
handleAddStream ==
    \E url \in StreamUrls :
        LET newItem == [id |-> generateId(1),
                        name |-> "Stream " \o ToString(Len(playlist) + 1),
                        url |-> url, type |-> "video", mimeType |-> NULL,
                        isStream |-> TRUE] IN
        /\ Len(playlist) < MaxPlaylist
        /\ playlist' = PrependItem(playlist, newItem)
        /\ currentMediaId' = newItem.id
        /\ currentView' = "PLAYER"
        /\ lastOp' = "handleAddStream"
        /\ UNCHANGED appOthers

\* Sidebar playlist button: onMediaSelect(item); onViewChange(PLAYER).
handleMediaSelect ==
    \E i \in 1..Len(playlist) :
        /\ currentMediaId' = playlist[i].id
        /\ currentView' = "PLAYER"
        /\ lastOp' = "handleMediaSelect"
        /\ UNCHANGED <<playlist, appOthers>>

\* Sidebar navigation buttons: onViewChange(mode) = setCurrentView.
setCurrentView ==
    \E mode \in ViewMode :
        /\ currentView' = mode
        /\ lastOp' = "setCurrentView"
        /\ UNCHANGED <<playlist, currentMediaId, appOthers>>

\* App.addToPlaylist(url, name, type): the studios' onVideoGenerated /
\* onImageGenerated callbacks.
addToPlaylist(url, name, type) ==
    playlist' = PrependItem(playlist,
        [id |-> generateId(1), name |-> name, url |-> url, type |-> type,
         mimeType |-> NULL, isStream |-> FALSE])

\* What the studios hand to their onVideoGenerated / onImageGenerated callbacks.
Generated ==
    { [url |-> "blob:video", name |-> "Veo: a city", type |-> "video"],
      [url |-> "data:image/png;base64,RESULT", name |-> "Gen: a cat", type |-> "image"] }

\* A studio's callback calls App.addToPlaylist.
AppAddToPlaylist ==
    \E g \in Generated :
        /\ Len(playlist) < MaxPlaylist
        /\ addToPlaylist(g.url, g.name, g.type)
        /\ lastOp' = "addToPlaylist"
        /\ UNCHANGED <<currentView, currentMediaId, appOthers>>

\* App.getCurrentMedia
getCurrentMedia ==
    IF \E i \in 1..Len(playlist) : playlist[i].id = currentMediaId
    THEN playlist[CHOOSE i \in 1..Len(playlist) :
                    /\ playlist[i].id = currentMediaId
                    /\ \A j \in 1..(i - 1) : playlist[j].id # currentMediaId]
    ELSE NULL

(***************************************************************************)
(* window.aistudio: the key-selection bridge both studios consult.  It is  *)
(* either absent or offers hasSelectedApiKey / openSelectKey, two awaited  *)
(* calls that settle either way.                                           *)
(***************************************************************************)
\* The message of a thrown Error; "" stands for an error without a message.
ErrMessages == {"", "request failed"}

EnvInit ==
    /\ aistudio \in {"absent", "present"}
    /\ hasKey \in BOOLEAN

(***************************************************************************)
(* ImageStudio (src/components/ImageStudio.tsx) with generateImage and     *)
(* editImage (src/types.ts 183-253).  A record of imgCalls is one call of  *)
(* handleAction that passed its guard: pc is the await it is suspended at  *)
(* (or "done"), tab / prompt / sel are the activeTab, prompt and           *)
(* selectedImageForEdit of the closure, subs counts the generateContent    *)
(* requests it has issued and out is how it ended.                         *)
(***************************************************************************)
ImgPrompts == {"", "a cat"}

UploadedImage == "data:image/png;base64,UPLOAD"

\* `data:image/png;base64,${part.inlineData.data}` of generateImage / editImage
ResultImage == "data:image/png;base64,RESULT"

EditFirstMsg == "Please select an image to edit first."
ProcessFailedMsg == "Failed to process image."
OperationFailedMsg == "Operation failed."

\* setError(err.message || "Operation failed.")
ImgErrorText(message) == IF message # "" THEN message ELSE OperationFailedMsg

\* Fault injection for ImgEmptyPromptNoOp: a guard that lets every call through.
ImgGuardAlways == TRUE

\* The guard of handleAction: if (!prompt) return;
ImgGuard == imgPrompt # ""

\* disabled={isProcessing || !prompt || (activeTab === 'edit' && !selectedImageForEdit)}
ImgButtonDisabled ==
    \/ isProcessing
    \/ imgPrompt = ""
    \/ (activeTab = "edit" /\ selectedImageForEdit = NULL)

\* A call that has returned: its closure is gone, its count of requests stays.
ImgDone(call, out) ==
    [pc |-> "done", tab |-> NULL, prompt |-> NULL, sel |-> NULL,
     subs |-> call.subs, out |-> out]

\* Fault injection for OneSubmissionNoRetry: a failure handler that sends the
\* request again instead of giving up.
ImgFailRetry(calls, i, message) ==
    /\ imgCalls' = [calls EXCEPT ![i].pc = "request", ![i].subs = @ + 1]
    /\ UNCHANGED <<imgError, isProcessing, selectedImageForEdit, playlist>>

\* Fault injection for EditWithoutImageFails: a failure handler without the
\* finally block, so that the busy flag stays set.
ImgFailStaysBusy(calls, i, message) ==
    /\ imgCalls' = [calls EXCEPT ![i] = ImgDone(@, "error")]
    /\ imgError' = ImgErrorText(message)
    /\ isProcessing' = TRUE
    /\ UNCHANGED <<selectedImageForEdit, playlist>>

\* catch (err) { setError(...) } finally { setIsProcessing(false) } of call i
ImgFail(calls, i, message) ==
    /\ imgCalls' = [calls EXCEPT ![i] = ImgDone(@, "error")]
    /\ imgError' = ImgErrorText(message)
    /\ isProcessing' = FALSE
    /\ UNCHANGED <<selectedImageForEdit, playlist>>

\* Lines 41-46 of call i: the request of the tab, or the throw of the edit
\* tab without a source image.  generateImage / editImage send
\* ai.models.generateContent and await it.
ImgRunService(calls, i) ==
    IF calls[i].tab = "edit" /\ calls[i].sel = NULL
    THEN ImgFail(calls, i, EditFirstMsg)
    ELSE /\ imgCalls' = [calls EXCEPT ![i].pc = "request", ![i].subs = @ + 1]
         /\ UNCHANGED <<selectedImageForEdit, playlist>>

\* handleAction up to its first await.
ImgHandleAction ==
    IF ~ImgGuard
    THEN /\ lastOp' = "img.handleAction.return"
         /\ UNCHANGED <<imgVars, playlist, imgOthers, envVars>>
    ELSE LET call == [pc |-> "start", tab |-> activeTab, prompt |-> imgPrompt,
                      sel |-> selectedImageForEdit, subs |-> 0, out |-> "pending"]
             calls == Append(imgCalls, call)
             i == Len(calls)
         IN
         /\ Len(imgCalls) < MaxImgCalls
         /\ lastOp' = "img.handleAction"
         /\ IF activeTab = "generate" /\ aistudio = "present"
            THEN /\ imgCalls' = [calls EXCEPT ![i].pc = "hasKey"]
                 /\ isProcessing' = TRUE
                 /\ imgError' = NULL
                 /\ UNCHANGED <<selectedImageForEdit, playlist>>
            ELSE /\ ImgRunService(calls, i)
                 /\ IF calls[i].tab = "edit" /\ calls[i].sel = NULL
                    THEN TRUE
                    ELSE isProcessing' = TRUE /\ imgError' = NULL
         /\ UNCHANGED <<imgPrompt, activeTab, imgOthers, envVars>>

\* await window.aistudio.hasSelectedApiKey() settles.
ImgHasKeySettled ==
    \E i \in 1..Len(imgCalls) :
        /\ imgCalls[i].pc = "hasKey"
        /\ \/ /\ hasKey
              /\ lastOp' = "img.hasKey.true"
              /\ ImgRunService(imgCalls, i)
              /\ UNCHANGED <<isProcessing, imgError>>
           \/ /\ ~hasKey
              /\ lastOp' = "img.hasKey.false"
              /\ imgCalls' = [imgCalls EXCEPT ![i].pc = "openKey"]
              /\ UNCHANGED <<isProcessing, imgError, selectedImageForEdit, playlist>>
           \/ \E m \in ErrMessages :
                /\ lastOp' = "img.failed"
                /\ ImgFail(imgCalls, i, m)
        /\ UNCHANGED <<imgPrompt, activeTab, imgOthers, envVars>>

\* await window.aistudio.openSelectKey() settles; the user may have picked a key.
ImgOpenKeySettled ==
    \E i \in 1..Len(imgCalls) :
        /\ imgCalls[i].pc = "openKey"
        /\ \/ /\ hasKey' \in BOOLEAN
              /\ lastOp' = "img.openKey.resolved"
              /\ ImgRunService(imgCalls, i)
              /\ UNCHANGED <<isProcessing, imgError>>
           \/ \E m \in ErrMessages :
                /\ lastOp' = "img.failed"
                /\ ImgFail(imgCalls, i, m)
                /\ UNCHANGED hasKey
        /\ UNCHANGED <<imgPrompt, activeTab, imgOthers, aistudio>>

\* Lines 48-59 of call i once generateImage / editImage returned resultUrl.
ImgResult(i, resultUrl) ==
    IF resultUrl # NULL
    THEN /\ addToPlaylist(resultUrl,
                (IF imgCalls[i].tab = "generate" THEN "Gen: " ELSE "Edit: ")
                    \o imgCalls[i].prompt, "image")
         /\ selectedImageForEdit' =
                IF imgCalls[i].tab = "generate" THEN resultUrl ELSE selectedImageForEdit
         /\ imgCalls' = [imgCalls EXCEPT ![i] = ImgDone(@, "added")]
         /\ isProcessing' = FALSE
         /\ UNCHANGED imgError
    ELSE ImgFail(imgCalls, i, ProcessFailedMsg)

\* await ai.models.generateContent(...) settles: a response with an image
\* part, a response without one, or a rejection (rethrown by the service).
ImgResponse ==
    \E i \in 1..Len(imgCalls) :
        /\ imgCalls[i].pc = "request"
        /\ \/ lastOp' = "img.added" /\ ImgResult(i, ResultImage)
           \/ lastOp' = "img.failed" /\ ImgResult(i, NULL)
           \/ \E m \in ErrMessages :
                lastOp' = "img.failed" /\ ImgFail(imgCalls, i, m)
        /\ UNCHANGED <<imgPrompt, activeTab, imgOthers, envVars>>

\* onChange of the prompt textarea
ImgSetPrompt ==
    \E p \in ImgPrompts :
        /\ imgPrompt' = p
        /\ lastOp' = "img.setPrompt"
        /\ UNCHANGED <<isProcessing, activeTab, selectedImageForEdit, imgError,
                       imgCalls, playlist, imgOthers, envVars>>

\* The header tabs
ImgSetActiveTab ==
    \E t \in {"generate", "edit"} :
        /\ activeTab' = t
        /\ lastOp' = "img.setActiveTab"
        /\ UNCHANGED <<imgPrompt, isProcessing, selectedImageForEdit, imgError,
                       imgCalls, playlist, imgOthers, envVars>>

\* handleFileUpload's reader.onload (the uploader is shown in the edit tab while
\* no image is selected), and the remove button of the selected image.
ImgSelectImage ==
    /\ activeTab = "edit"
    /\ \/ selectedImageForEdit = NULL /\ selectedImageForEdit' = UploadedImage
       \/ selectedImageForEdit # NULL /\ selectedImageForEdit' = NULL
    /\ lastOp' = "img.selectImage"
    /\ UNCHANGED <<imgPrompt, isProcessing, activeTab, imgError, imgCalls,
                   playlist, imgOthers, envVars>>

ImgInit ==
    /\ imgPrompt = ""
    /\ isProcessing = FALSE
    /\ activeTab = "generate"
    /\ selectedImageForEdit = NULL
    /\ imgError = NULL
    /\ imgCalls = <<>>

ImgNext ==
    \/ ImgHandleAction
    \/ ImgHasKeySettled
    \/ ImgOpenKeySettled
    \/ ImgResponse
    \/ ImgSetPrompt
    \/ ImgSetActiveTab
    \/ ImgSelectImage

(***************************************************************************)
(* VeoStudio (src/components/LiveView.tsx 223-391) with generateVeoVideo   *)
(* (src/types.ts 124-179).  A record of veoCalls is one call of            *)
(* handleGenerate that passed its guard, together with the                 *)
(* generateVeoVideo call it awaits: pc is the await it is suspended at,    *)
(* prompt / image the prompt and inputImage of the closure, subs the       *)
(* generateVideos requests issued, polls the getVideosOperation requests   *)
(* issued, done the done flag of the operation object it holds (FALSE      *)
(* before the first one arrives), uri whether that operation carries a     *)
(* video uri, fetched whether the uri was fetched, ret what                *)
(* generateVeoVideo returned ("url", "null", "throw" or "none").           *)
(***************************************************************************)
VeoPrompts == {"", "a city"}

ReferenceImage == "data:image/png;base64,REF"

\* URL.createObjectURL(blob)
VideoUrl == "blob:video"

RetrieveFailedMsg == "Failed to retrieve video URL."
UnexpectedMsg == "An unexpected error occurred."

\* setError(err.message || "An unexpected error occurred.")
VeoErrorText(message) == IF message # "" THEN message ELSE UnexpectedMsg

\* Fault injection for VeoNothingToGenerateNoOp: a guard on the prompt alone.
VeoGuardPromptOnly == veoPrompt # ""

\* The guard of handleGenerate: if (!prompt && !inputImage) return;
VeoGuard == ~(veoPrompt = "" /\ inputImage = NULL)

\* disabled={isGenerating || (!prompt && !inputImage)}
VeoButtonDisabled == isGenerating \/ (veoPrompt = "" /\ inputImage = NULL)

\* A call that has returned: its closure and its operation object are gone;
\* what stays is what it did (requests issued, whether it saw the job done,
\* whether it fetched the uri, what generateVeoVideo returned).
VeoDone(call, ret) ==
    [pc |-> "done", prompt |-> NULL, image |-> NULL, subs |-> call.subs,
     polls |-> 0, done |-> call.done, uri |-> FALSE,
     fetched |-> call.fetched, ret |-> ret]

\* The VeoStudio instance whose handleGenerate made call i is still mounted:
\* the calls made before the last unmount are the first veoStale ones, and
\* the state setters of an unmounted component do nothing.
VeoLive(i) == i > veoStale

\* generateVeoVideo throws (catch: rethrow), or handleGenerate throws itself:
\* catch (err) { setError(...) } finally { setIsGenerating(false) } of call i
VeoFail(calls, i, ret, message) ==
    /\ veoCalls' = [calls EXCEPT ![i] = VeoDone(@, ret)]
    /\ veoError' = IF VeoLive(i) THEN VeoErrorText(message) ELSE veoError
    /\ isGenerating' = IF VeoLive(i) THEN FALSE ELSE isGenerating
    /\ UNCHANGED playlist

\* generateVeoVideo up to its first await: ai.models.generateVideos(params)
VeoSubmit(calls, i) ==
    /\ veoCalls' = [calls EXCEPT ![i].pc = "submit", ![i].subs = @ + 1]
    /\ UNCHANGED playlist

\* Fault injection for VeoPollsUntilDone: a loop that is never entered.
VeoLoopNever(operation) == FALSE

\* The poll loop's test: while (!operation.done)
VeoLoopTest(operation) == ~operation.done

\* generateVeoVideo of call i from the loop test on, holding `operation`:
\* the 5 s wait of another round, or lines 164-173 once the loop is left.
VeoAfterOperation(i, operation) ==
    LET call == [veoCalls[i] EXCEPT !.done = operation.done, !.uri = operation.uri] IN
    IF VeoLoopTest(operation)
    THEN /\ veoCalls' = [veoCalls EXCEPT ![i] = [call EXCEPT !.pc = "wait"]]
         /\ UNCHANGED <<veoError, isGenerating, playlist>>
    ELSE IF operation.uri
    THEN /\ veoCalls' = [veoCalls EXCEPT ![i] = [call EXCEPT !.pc = "fetch", !.fetched = TRUE]]
         /\ UNCHANGED <<veoError, isGenerating, playlist>>
    ELSE VeoFail([veoCalls EXCEPT ![i] = call], i, "null", RetrieveFailedMsg)

\* The operation objects the service can answer with; it reports a job still
\* running at most MaxPolls times to one caller.
Operations(call) ==
    {[done |-> TRUE, uri |-> TRUE], [done |-> TRUE, uri |-> FALSE]}
        \cup (IF call.polls < MaxPolls THEN {[done |-> FALSE, uri |-> FALSE]} ELSE {})

\* handleGenerate up to its first await.
VeoHandleGenerate ==
    IF ~VeoGuard
    THEN /\ lastOp' = "veo.handleGenerate.return"
         /\ UNCHANGED <<veoVars, playlist, veoOthers, envVars>>
    ELSE LET call == [pc |-> "start", prompt |-> veoPrompt, image |-> inputImage,
                      subs |-> 0, polls |-> 0, done |-> FALSE, uri |-> FALSE,
                      fetched |-> FALSE, ret |-> "none"]
             calls == Append(veoCalls, call)
             i == Len(calls)
         IN
         /\ Len(veoCalls) < MaxVeoCalls
         /\ lastOp' = "veo.handleGenerate"
         /\ isGenerating' = TRUE
         /\ veoError' = NULL
         /\ IF aistudio = "present"
            THEN /\ veoCalls' = [calls EXCEPT ![i].pc = "hasKey"]
                 /\ UNCHANGED playlist
            ELSE VeoSubmit(calls, i)
         /\ UNCHANGED <<veoPrompt, inputImage, veoOthers, envVars>>

\* await window.aistudio.hasSelectedApiKey() settles.
VeoHasKeySettled ==
    \E i \in 1..Len(veoCalls) :
        /\ veoCalls[i].pc = "hasKey"
        /\ \/ /\ hasKey
              /\ lastOp' = "veo.hasKey.true"
              /\ VeoSubmit(veoCalls, i)
              /\ UNCHANGED <<isGenerating, veoError>>
           \/ /\ ~hasKey
              /\ lastOp' = "veo.hasKey.false"
              /\ veoCalls' = [veoCalls EXCEPT ![i].pc = "openKey"]
              /\ UNCHANGED <<isGenerating, veoError, playlist>>
           \/ \E m \in ErrMessages :
                /\ lastOp' = "veo.failed"
                /\ VeoFail(veoCalls, i, "none", m)
        /\ UNCHANGED <<veoPrompt, inputImage, veoOthers, envVars>>

\* await window.aistudio.openSelectKey() settles; the user may have picked a key.
VeoOpenKeySettled ==
    \E i \in 1..Len(veoCalls) :
        /\ veoCalls[i].pc = "openKey"
        /\ \/ /\ hasKey' \in BOOLEAN
              /\ lastOp' = "veo.openKey.resolved"
              /\ VeoSubmit(veoCalls, i)
              /\ UNCHANGED <<isGenerating, veoError>>
           \/ \E m \in ErrMessages :
                /\ lastOp' = "veo.failed"
                /\ VeoFail(veoCalls, i, "none", m)
                /\ UNCHANGED hasKey
        /\ UNCHANGED <<veoPrompt, inputImage, veoOthers, aistudio>>

\* await ai.models.generateVideos(params) settles.
VeoSubmitSettled ==
    \E i \in 1..Len(veoCalls) :
        /\ veoCalls[i].pc = "submit"
        /\ \/ \E operation \in Operations(veoCalls[i]) :
                /\ lastOp' = "veo.submitted"
                /\ VeoAfterOperation(i, operation)
           \/ \E m \in ErrMessages :
                /\ lastOp' = "veo.failed"
                /\ VeoFail(veoCalls, i, "throw", m)
        /\ UNCHANGED <<veoPrompt, inputImage, veoOthers, envVars>>

\* The setTimeout(resolve, 5000) of the loop fires: the loop body goes on to
\* ai.operations.getVideosOperation({operation}).
VeoPollTimer ==
    \E i \in 1..Len(veoCalls) :
        /\ veoCalls[i].pc = "wait"
        /\ veoCalls' = [veoCalls EXCEPT ![i].pc = "poll", ![i].polls = @ + 1]
        /\ lastOp' = "veo.poll"
        /\ UNCHANGED <<veoPrompt, isGenerating, veoError, inputImage, playlist,
                       veoOthers, envVars>>

\* await ai.operations.getVideosOperation(...) settles.
VeoPollSettled ==
    \E i \in 1..Len(veoCalls) :
        /\ veoCalls[i].pc = "poll"
        /\ \/ \E operation \in Operations(veoCalls[i]) :
                /\ lastOp' = "veo.polled"
                /\ VeoAfterOperation(i, operation)
           \/ \E m \in ErrMessages :
                /\ lastOp' = "veo.failed"
                /\ VeoFail(veoCalls, i, "throw", m)
        /\ UNCHANGED <<veoPrompt, inputImage, veoOthers, envVars>>

\* await fetch(fetchUrl) settles.
VeoFetchSettled ==
    \E i \in 1..Len(veoCalls) :
        /\ veoCalls[i].pc = "fetch"
        /\ \/ /\ lastOp' = "veo.fetched"
              /\ veoCalls' = [veoCalls EXCEPT ![i].pc = "blob"]
              /\ UNCHANGED <<isGenerating, veoError, playlist>>
           \/ \E m \in ErrMessages :
                /\ lastOp' = "veo.failed"
                /\ VeoFail(veoCalls, i, "throw", m)
        /\ UNCHANGED <<veoPrompt, inputImage, veoOthers, envVars>>

\* await res.blob() settles; on success generateVeoVideo returns the object
\* URL and handleGenerate calls onVideoGenerated(videoUrl, prompt || 'Image to Video').
VeoBlobSettled ==
    \E i \in 1..Len(veoCalls) :
        /\ veoCalls[i].pc = "blob"
        /\ \/ /\ lastOp' = "veo.added"
              /\ addToPlaylist(VideoUrl,
                    "Veo: " \o (IF veoCalls[i].prompt # "" THEN veoCalls[i].prompt
                                ELSE "Image to Video"), "video")
              /\ veoCalls' = [veoCalls EXCEPT ![i] = VeoDone(@, "url")]
              /\ isGenerating' = IF VeoLive(i) THEN FALSE ELSE isGenerating
              /\ UNCHANGED veoError
           \/ \E m \in ErrMessages :
                /\ lastOp' = "veo.failed"
                /\ VeoFail(veoCalls, i, "throw", m)
        /\ UNCHANGED <<veoPrompt, inputImage, veoOthers, envVars>>

\* onChange of the prompt textarea
VeoSetPrompt ==
    \E p \in VeoPrompts :
        /\ veoPrompt' = p
        /\ lastOp' = "veo.setPrompt"
        /\ UNCHANGED <<isGenerating, veoError, inputImage, veoCalls, playlist,
                       veoOthers, envVars>>

\* handleImageUpload's reader.onload (shown while no image is attached), and
\* the remove button of the attached image.
VeoSetInputImage ==
    /\ inputImage' = IF inputImage = NULL THEN ReferenceImage ELSE NULL
    /\ lastOp' = "veo.setInputImage"
    /\ UNCHANGED <<veoPrompt, isGenerating, veoError, veoCalls, playlist,
                   veoOthers, envVars>>

\* The sidebar's navigation while a studio call may be pending: VeoStudio is
\* rendered only while currentView is VEO_STUDIO, so leaving the view unmounts
\* it, its pending handleGenerate calls keep running, and coming back mounts
\* a new instance with the useState defaults.  The state of the unmounted
\* instance is discarded: the variables hold the defaults from then on.
VeoSetCurrentView ==
    \E mode \in ViewMode :
        /\ mode # currentView
        /\ currentView' = mode
        /\ lastOp' = "veo.setCurrentView"
        /\ IF currentView = "VEO_STUDIO"
           THEN /\ veoStale' = Len(veoCalls)
                /\ veoPrompt' = ""
                /\ isGenerating' = FALSE
                /\ veoError' = NULL
                /\ inputImage' = NULL
           ELSE UNCHANGED <<veoStale, veoPrompt, isGenerating, veoError, inputImage>>
        /\ UNCHANGED <<veoCalls, playlist, currentMediaId, imgVars, chatVars, liveVars,
                       playerVars, envVars>>

VeoInit ==
    /\ veoPrompt = ""
    /\ isGenerating = FALSE
    /\ veoError = NULL
    /\ inputImage = NULL
    /\ veoCalls = <<>>
    /\ veoStale = 0

VeoNext ==
    \/ VeoHandleGenerate
    \/ VeoHasKeySettled
    \/ VeoOpenKeySettled
    \/ VeoSubmitSettled
    \/ VeoPollTimer
    \/ VeoPollSettled
    \/ VeoFetchSettled
    \/ VeoBlobSettled
    \/ VeoSetPrompt
    \/ VeoSetInputImage

(***************************************************************************)
(* GeminiAssistant (src/components/LiveView.tsx 392-611) with              *)
(* sendMessageToChat and generateSpeech (src/types.ts 59-120).             *)
(* A message is {id, role, text, images}; re is history: the id of the     *)
(* user message whose request produced a model message.  chatCalls holds   *)
(* the handleSend calls suspended at `await sendMessageToChat`, speakCalls *)
(* the handleSpeak calls in progress (pc: "tts" awaiting generateSpeech,   *)
(* "decode" awaiting decodeAudioData, "playing" until onended).            *)
(* audioContextRef is "none" (null), "running" or "closed".                *)
(***************************************************************************)
Inputs == {"", " ", "hi"}

\* String.prototype.trim on the inputs of the model
Trim(text) == IF text = " " THEN "" ELSE text

\* canvas.toDataURL('image/jpeg') of Player.captureFrame
Frame == "data:image/jpeg;base64,FRAME"

WelcomeMessage ==
    [id |-> "welcome", role |-> "model", text |-> "Hello! I am your Gemini media assistant.",
     images |-> <<>>, re |-> NULL]

AnalyzeText == "Analyze this image"
NoResponseMsg == "I couldn't generate a response."
ChatErrorMsg == "Sorry, I encountered an error processing your request."

\* Date.now().toString() ids, modelled as fresh: the k-th message gets k.
MessageId(msgs) == ToString(Len(msgs))

UserMessages(msgs) == {k \in 1..Len(msgs) : msgs[k].role = "user"}

\* Fault injection for TranscriptAppendOnly: the new message put first.
AppendMessageInFront(prev, msg) == IF chatMounted THEN <<msg>> \o prev ELSE prev

\* setMessages(prev => [...prev, msg]); a state setter of an unmounted
\* component does nothing.
AppendMessage(prev, msg) == IF chatMounted THEN Append(prev, msg) ELSE prev

\* Fault injection for SendAddsOneOfEach: a guard that tests the input without
\* trimming it.
ChatGuardUntrimmed == ~((input = "" /\ contextImage = NULL) \/ chatSession = NULL)

\* The guard of handleSend: if ((!input.trim() && !contextImage) || !chatSession) return;
ChatGuard == ~((Trim(input) = "" /\ contextImage = NULL) \/ chatSession = NULL)

\* disabled={(!input && !contextImage) || isThinking}
SendButtonDisabled == (input = "" /\ contextImage = NULL) \/ isThinking

\* Fault injection for ScreenshotSentOnce: a handleSend without
\* setContextImage(null), so that the screenshot stays attached.
handleSendKeepingContext ==
    IF ~ChatGuard
    THEN /\ lastOp' = "chat.handleSend.return"
         /\ UNCHANGED chatVars
    ELSE LET currentContext == IF contextImage # NULL THEN <<contextImage>> ELSE <<>>
             userMsg == [id |-> MessageId(messages), role |-> "user", text |-> input,
                         images |-> currentContext, re |-> NULL]
         IN
         /\ Cardinality(UserMessages(messages)) < MaxSends
         /\ messages' = AppendMessage(messages, userMsg)
         /\ input' = ""
         /\ isThinking' = TRUE
         /\ chatCalls' = chatCalls \cup
                {[user |-> userMsg.id,
                  text |-> IF userMsg.text # "" THEN userMsg.text ELSE AnalyzeText,
                  images |-> currentContext, subs |-> 1]}
         /\ lastOp' = "chat.handleSend"
         /\ UNCHANGED <<chatSession, contextImage, playingMessageId, speakCalls,
                        audioContextRef, chatMounted>>

\* handleSend up to its await: sendMessageToChat builds the content and calls
\* chat.sendMessage.
handleSend ==
    IF ~ChatGuard
    THEN /\ lastOp' = "chat.handleSend.return"
         /\ UNCHANGED chatVars
    ELSE LET currentContext == IF contextImage # NULL THEN <<contextImage>> ELSE <<>>
             userMsg == [id |-> MessageId(messages), role |-> "user", text |-> input,
                         images |-> currentContext, re |-> NULL]
         IN
         /\ Cardinality(UserMessages(messages)) < MaxSends
         /\ messages' = AppendMessage(messages, userMsg)
         /\ input' = ""
         /\ contextImage' = NULL
         /\ isThinking' = TRUE
         /\ chatCalls' = chatCalls \cup
                {[user |-> userMsg.id,
                  text |-> IF userMsg.text # "" THEN userMsg.text ELSE AnalyzeText,
                  images |-> currentContext, subs |-> 1]}
         /\ lastOp' = "chat.handleSend"
         /\ UNCHANGED <<chatSession, playingMessageId, speakCalls, audioContextRef,
                        chatMounted>>

\* onClick of the Send button
ChatSendClick ==
    /\ chatMounted
    /\ ~SendButtonDisabled
    /\ handleSend
    /\ UNCHANGED chatOthers

\* onKeyDown of the textarea: Enter without Shift
ChatEnterKey ==
    /\ chatMounted
    /\ handleSend
    /\ UNCHANGED chatOthers

\* The model message of a settled request: the reply (response.text, or the
\* fallback of sendMessageToChat when it is empty) or the error message.
ModelMessage(msgs, call, text) ==
    [id |-> MessageId(msgs), role |-> "model", text |-> text, images |-> <<>>,
     re |-> call.user]

\* response.text of a chat completion: a text, or nothing
Replies == {"a reply", ""}

\* await sendMessageToChat(...) settles: try / catch / finally of handleSend,
\* for a response text drawn from `replies` or a rejected request.
ChatSettledWith(replies) ==
    \E call \in chatCalls :
        /\ \/ \E text \in replies :
                /\ messages' = AppendMessage(messages,
                        ModelMessage(messages, call, IF text # "" THEN text ELSE NoResponseMsg))
                /\ lastOp' = "chat.replied"
           \/ /\ messages' = AppendMessage(messages, ModelMessage(messages, call, ChatErrorMsg))
              /\ lastOp' = "chat.failed"
        /\ chatCalls' = chatCalls \ {call}
        /\ isThinking' = IF chatMounted THEN FALSE ELSE isThinking
        /\ UNCHANGED <<input, chatSession, contextImage, playingMessageId, speakCalls,
                       audioContextRef, chatMounted, chatOthers>>

ChatSettled == ChatSettledWith(Replies)

\* The mount effect: setChatSession(createChatSession(...))
ChatMountEffect ==
    /\ chatMounted
    /\ chatSession = NULL
    /\ chatSession' = "chat"
    /\ lastOp' = "chat.mounted"
    /\ UNCHANGED <<messages, input, isThinking, contextImage, playingMessageId, chatCalls,
                   speakCalls, audioContextRef, chatMounted, chatOthers>>

\* onChange of the textarea
ChatSetInput ==
    \E text \in Inputs :
        /\ chatMounted
        /\ input' = text
        /\ lastOp' = "chat.setInput"
        /\ UNCHANGED <<messages, isThinking, chatSession, contextImage, playingMessageId,
                       chatCalls, speakCalls, audioContextRef, chatMounted, chatOthers>>

\* handleCapture: onCaptureContext() gives a frame of the playing video or null
\* (then alert("No active video found to capture.")).
handleCapture ==
    \E frame \in {Frame, NULL} :
        /\ chatMounted
        /\ IF frame # NULL
           THEN contextImage' = frame /\ lastOp' = "chat.handleCapture"
           ELSE UNCHANGED contextImage /\ lastOp' = "chat.handleCapture.alert"
        /\ UNCHANGED <<messages, input, isThinking, chatSession, playingMessageId,
                       chatCalls, speakCalls, audioContextRef, chatMounted, chatOthers>>

\* The remove button of the context preview: setContextImage(null)
ChatClearContext ==
    /\ chatMounted
    /\ contextImage # NULL
    /\ contextImage' = NULL
    /\ lastOp' = "chat.clearContext"
    /\ UNCHANGED <<messages, input, isThinking, chatSession, playingMessageId,
                   chatCalls, speakCalls, audioContextRef, chatMounted, chatOthers>>

\* setPlayingMessageId(id) of a handleSpeak call
SetPlayingMessageId(id) == playingMessageId' = IF chatMounted THEN id ELSE playingMessageId

RemoveAt(s, i) == SubSeq(s, 1, i - 1) \o SubSeq(s, i + 1, Len(s))

\* handleSpeak(msg) up to `await generateSpeech(msg.text)`; the Read aloud
\* button is rendered on model messages.
handleSpeakUpTo(n) ==
    \E k \in 1..Len(messages) :
        /\ chatMounted
        /\ messages[k].role = "model"
        /\ IF playingMessageId = messages[k].id
           THEN /\ lastOp' = "chat.handleSpeak.return"
                /\ UNCHANGED <<playingMessageId, speakCalls>>
           ELSE /\ Len(speakCalls) < n
                /\ playingMessageId' = messages[k].id
                /\ speakCalls' = Append(speakCalls, [msg |-> messages[k].id, pc |-> "tts"])
                /\ lastOp' = "chat.handleSpeak"
        /\ UNCHANGED <<messages, input, isThinking, chatSession, contextImage, chatCalls,
                       audioContextRef, chatMounted, chatOthers>>

handleSpeak == handleSpeakUpTo(MaxSpeaks)

\* await generateSpeech(msg.text) settles.  generateSpeech catches a failed
\* request (console.error) and returns null, as it does for a response
\* without audio; with audio handleSpeak makes the AudioContext if there is
\* none and awaits ctx.decodeAudioData.
SpeechSettled ==
    \E i \in 1..Len(speakCalls) :
        /\ speakCalls[i].pc = "tts"
        /\ \/ /\ lastOp' = "chat.speak.audio"
              /\ audioContextRef' = IF audioContextRef = "none" THEN "running" ELSE audioContextRef
              /\ speakCalls' = [speakCalls EXCEPT ![i].pc = "decode"]
              /\ UNCHANGED playingMessageId
           \/ /\ lastOp' \in {"chat.speak.failed", "chat.speak.noAudio"}
              /\ SetPlayingMessageId(NULL)
              /\ speakCalls' = RemoveAt(speakCalls, i)
              /\ UNCHANGED audioContextRef
        /\ UNCHANGED <<messages, input, isThinking, chatSession, contextImage, chatCalls,
                       chatMounted, chatOthers>>

\* await ctx.decodeAudioData(audioData) settles: the source is started, or
\* the catch of handleSpeak resets playingMessageId.
SpeechDecoded ==
    \E i \in 1..Len(speakCalls) :
        /\ speakCalls[i].pc = "decode"
        /\ \/ /\ lastOp' = "chat.speak.started"
              /\ speakCalls' = [speakCalls EXCEPT ![i].pc = "playing"]
              /\ UNCHANGED playingMessageId
           \/ /\ lastOp' = "chat.speak.decodeFailed"
              /\ SetPlayingMessageId(NULL)
              /\ speakCalls' = RemoveAt(speakCalls, i)
        /\ UNCHANGED <<messages, input, isThinking, chatSession, contextImage, chatCalls,
                       audioContextRef, chatMounted, chatOthers>>

\* source.onended = () => setPlayingMessageId(null)
SpeechEnded ==
    \E i \in 1..Len(speakCalls) :
        /\ speakCalls[i].pc = "playing"
        /\ lastOp' = "chat.speak.ended"
        /\ SetPlayingMessageId(NULL)
        /\ speakCalls' = RemoveAt(speakCalls, i)
        /\ UNCHANGED <<messages, input, isThinking, chatSession, contextImage, chatCalls,
                       audioContextRef, chatMounted, chatOthers>>

\* The cleanup of the mount effect: audioContextRef.current?.close()
ChatUnmount ==
    /\ chatMounted
    /\ chatMounted' = FALSE
    /\ audioContextRef' = IF audioContextRef = "none" THEN "none" ELSE "closed"
    /\ lastOp' = "chat.unmount"
    /\ UNCHANGED <<messages, input, isThinking, chatSession, contextImage, playingMessageId,
                   chatCalls, speakCalls, chatOthers>>

ChatInit ==
    /\ messages = <<WelcomeMessage>>
    /\ input = ""
    /\ isThinking = FALSE
    /\ chatSession = NULL
    /\ contextImage = NULL
    /\ playingMessageId = NULL
    /\ chatCalls = {}
    /\ speakCalls = <<>>
    /\ audioContextRef = "none"
    /\ chatMounted = TRUE

(***************************************************************************)
(* LiveView (src/components/LiveView.tsx 5-220).  liveContexts lists every *)
(* AudioContext the component has made, "running" or "closed"; the two     *)
(* refs hold a position in it, 0 for null.  A record of liveCalls is one   *)
(* startSession call with the session it connects: pc is "getUserMedia"    *)
(* (awaiting the microphone), "connecting" (ai.live.connect called),       *)
(* "open" (onopen ran), "error" (onerror ran), "closed" (onclose ran) or   *)
(* "failed" (getUserMedia rejected).  The component is mounted while the   *)
(* view is LIVE.                                                           *)
(***************************************************************************)
LiveMounted == currentView = "LIVE"

\* A state setter of an unmounted component does nothing.
SetStatus(mounted, value) == status' = IF mounted THEN value ELSE status

SetConnected(mounted, value) == connected' = IF mounted THEN value ELSE connected

\* inputAudioContextRef.current?.close(); outputAudioContextRef.current?.close()
CloseRefContexts(contexts) ==
    [k \in 1..Len(contexts) |->
        IF k \in {inputAudioContextRef, outputAudioContextRef} THEN "closed" ELSE contexts[k]]

\* startSession up to `await navigator.mediaDevices.getUserMedia`; the Start
\* button is rendered while !connected.
startSession ==
    /\ LiveMounted
    /\ ~connected
    /\ Len(liveCalls) < MaxStarts
    /\ status' = "Connecting..."
    /\ liveContexts' = liveContexts \o <<"running", "running">>
    /\ inputAudioContextRef' = Len(liveContexts) + 1
    /\ outputAudioContextRef' = Len(liveContexts) + 2
    /\ liveCalls' = Append(liveCalls, [pc |-> "getUserMedia", muted |-> isMuted, proc |-> 0])
    /\ lastOp' = "live.startSession"
    /\ UNCHANGED <<connected, isMuted, sessionPromiseRef, currentView, liveOthers>>

\* await getUserMedia settles: ai.live.connect is called and its promise kept
\* in sessionPromiseRef, or the catch sets the status.
LiveMediaSettled ==
    \E i \in 1..Len(liveCalls) :
        /\ liveCalls[i].pc = "getUserMedia"
        /\ \/ /\ liveCalls' = [liveCalls EXCEPT ![i].pc = "connecting"]
              /\ sessionPromiseRef' = i
              /\ lastOp' = "live.connect"
              /\ UNCHANGED status
           \/ /\ liveCalls' = [liveCalls EXCEPT ![i].pc = "failed"]
              /\ SetStatus(LiveMounted, "Failed to connect")
              /\ lastOp' = "live.mediaFailed"
              /\ UNCHANGED sessionPromiseRef
        /\ UNCHANGED <<connected, isMuted, inputAudioContextRef, outputAudioContextRef,
                       liveContexts, currentView, liveOthers>>

\* callbacks.onopen; the script processor is made on the input context the ref
\* holds now, and its onaudioprocess closes over the isMuted of the render
\* startSession was called in.
LiveOnOpen ==
    \E i \in 1..Len(liveCalls) :
        /\ liveCalls[i].pc = "connecting"
        /\ liveCalls' = [liveCalls EXCEPT ![i].pc = "open",
                                         ![i].proc = inputAudioContextRef]
        /\ SetStatus(LiveMounted, "Live")
        /\ SetConnected(LiveMounted, TRUE)
        /\ lastOp' = "live.onopen"
        /\ UNCHANGED <<isMuted, inputAudioContextRef, outputAudioContextRef,
                       sessionPromiseRef, liveContexts, currentView, liveOthers>>

\* callbacks.onerror
LiveOnError ==
    \E i \in 1..Len(liveCalls) :
        /\ liveCalls[i].pc \in {"connecting", "open"}
        /\ liveCalls' = [liveCalls EXCEPT ![i].pc = "error"]
        /\ SetStatus(LiveMounted, "Error")
        /\ SetConnected(LiveMounted, FALSE)
        /\ lastOp' = "live.onerror"
        /\ UNCHANGED <<isMuted, inputAudioContextRef, outputAudioContextRef,
                       sessionPromiseRef, liveContexts, currentView, liveOthers>>

\* callbacks.onclose
LiveOnClose ==
    \E i \in 1..Len(liveCalls) :
        /\ liveCalls[i].pc \in {"open", "error"}
        /\ liveCalls' = [liveCalls EXCEPT ![i].pc = "closed"]
        /\ SetStatus(LiveMounted, "Disconnected")
        /\ SetConnected(LiveMounted, FALSE)
        /\ lastOp' = "live.onclose"
        /\ UNCHANGED <<isMuted, inputAudioContextRef, outputAudioContextRef,
                       sessionPromiseRef, liveContexts, currentView, liveOthers>>

\* stopSession; the End Session button is rendered while connected.  The
\* session itself is left as it is.
stopSession ==
    /\ LiveMounted
    /\ connected
    /\ liveContexts' = CloseRefContexts(liveContexts)
    /\ connected' = FALSE
    /\ status' = "Disconnected"
    /\ lastOp' = "live.stopSession"
    /\ UNCHANGED <<isMuted, inputAudioContextRef, outputAudioContextRef,
                   sessionPromiseRef, liveCalls, currentView, liveOthers>>

\* The mute button, rendered while connected: setIsMuted(!isMuted)
LiveToggleMute ==
    /\ LiveMounted
    /\ connected
    /\ isMuted' = ~isMuted
    /\ lastOp' = "live.toggleMute"
    /\ UNCHANGED <<connected, status, inputAudioContextRef, outputAudioContextRef,
                   sessionPromiseRef, liveContexts, liveCalls, currentView, liveOthers>>

\* The user leaves the LIVE view: the cleanup of the mount effect closes the
\* contexts the refs hold.
LiveUnmount ==
    /\ LiveMounted
    /\ currentView' = "PLAYER"
    /\ liveContexts' = CloseRefContexts(liveContexts)
    /\ lastOp' = "live.unmount"
    /\ UNCHANGED <<connected, status, isMuted, inputAudioContextRef,
                   outputAudioContextRef, sessionPromiseRef, liveCalls, liveOthers>>

\* A sample s of a Float32Array is kept as the integer s * SampleSteps: the
\* samples of [-1, 1] are -SampleSteps..SampleSteps.
SampleSteps == 10

Samples == (0 - SampleSteps)..SampleSteps

\* The integer part of n / d (d > 0), as the conversion of a Number to an
\* integer takes it: towards zero.
Truncate(n, d) == IF n >= 0 THEN n \div d ELSE 0 - ((0 - n) \div d)

\* The store of a Number into an Int16Array element: the integer part modulo
\* 2^16, taken into -2^15..2^15-1.
ToInt16(n, d) == ((Truncate(n, d) + 32768) % 65536) - 32768

\* createBlob(data), as the Int16Array it encodes: int16[i] = data[i] * 32768
createBlob(data) == [i \in 1..Len(data) |-> ToInt16(data[i] * 32768, SampleSteps)]

\* scriptProcessor.onaudioprocess of the processor onopen made for call i:
\* an event of a running input context.
LiveAudioProcess ==
    \E i \in 1..Len(liveCalls) :
        /\ liveCalls[i].proc # 0
        /\ liveContexts[liveCalls[i].proc] = "running"
        /\ sentAudio < MaxMicChunks
        /\ sentAudio' = IF liveCalls[i].muted THEN sentAudio ELSE sentAudio + 1
        /\ pcmBlob' = IF liveCalls[i].muted THEN pcmBlob ELSE createBlob(inputData)
        /\ lastOp' = "live.audioprocess"
        /\ UNCHANGED <<inputData, nextStartTimeRef, liveClocks, liveDecoding, scheduled, connected,
                       status, isMuted, inputAudioContextRef, outputAudioContextRef,
                       sessionPromiseRef, liveContexts, liveCalls, appVars, imgVars,
                       veoVars, chatVars, playerVars, envVars>>

\* The durations of the audio buffers of the messages, in seconds.
ChunkDurations == {1, 2}

\* callbacks.onmessage of call i with audio, up to `await decodeAudioData`
LiveOnMessage ==
    \E i \in 1..Len(liveCalls), d \in ChunkDurations :
        LET ctx == outputAudioContextRef IN
        /\ liveCalls[i].pc = "open"
        /\ ctx # 0
        /\ Len(scheduled) + Len(liveDecoding) < MaxChunks
        /\ nextStartTimeRef' = Max(nextStartTimeRef, liveClocks[ctx])
        /\ liveDecoding' = Append(liveDecoding,
               [session |-> i, n |-> Len(scheduled) + Len(liveDecoding) + 1, ctx |-> ctx,
                at |-> liveClocks[ctx], behind |-> Len(liveDecoding), duration |-> d])
        /\ lastOp' = "live.onmessage"
        /\ UNCHANGED <<sentAudio, liveClocks, scheduled, inputData, pcmBlob, connected,
                       status, isMuted,
                       inputAudioContextRef, outputAudioContextRef, sessionPromiseRef,
                       liveContexts, liveCalls, appVars, imgVars, veoVars, chatVars,
                       playerVars, envVars>>

\* Fault injection for ChunksInArrivalOrder: the cursor is not moved past the
\* chunk that was started.
LiveChunkDecodedNoAdvance ==
    /\ liveDecoding # <<>>
    /\ LET h == Head(liveDecoding) IN
       /\ scheduled' = Append(scheduled,
              [session |-> h.session, n |-> h.n, ctx |-> h.ctx, at |-> h.at,
               behind |-> h.behind, start |-> nextStartTimeRef, duration |-> h.duration])
    /\ liveDecoding' = Tail(liveDecoding)
    /\ lastOp' = "live.chunkDecoded"
    /\ UNCHANGED <<nextStartTimeRef, sentAudio, liveClocks, inputData, pcmBlob, connected,
                   status, isMuted,
                   inputAudioContextRef, outputAudioContextRef, sessionPromiseRef,
                   liveContexts, liveCalls, appVars, imgVars, veoVars, chatVars,
                   playerVars, envVars>>

\* onmessage after its await: the handlers resume in the order they reached it.
\* source.start(nextStartTimeRef.current); nextStartTimeRef.current += duration
LiveChunkDecoded ==
    /\ liveDecoding # <<>>
    /\ LET h == Head(liveDecoding) IN
       /\ scheduled' = Append(scheduled,
              [session |-> h.session, n |-> h.n, ctx |-> h.ctx, at |-> h.at,
               behind |-> h.behind, start |-> nextStartTimeRef, duration |-> h.duration])
       /\ nextStartTimeRef' = nextStartTimeRef + h.duration
    /\ liveDecoding' = Tail(liveDecoding)
    /\ lastOp' = "live.chunkDecoded"
    /\ UNCHANGED <<sentAudio, liveClocks, inputData, pcmBlob, connected, status, isMuted,
                   inputAudioContextRef, outputAudioContextRef, sessionPromiseRef,
                   liveContexts, liveCalls, appVars, imgVars, veoVars, chatVars,
                   playerVars, envVars>>

\* A second passes on every running audio context; the handlers at their
\* await resume before that.
LiveTick ==
    /\ liveDecoding = <<>>
    /\ \E k \in 1..Len(liveContexts) : liveContexts[k] = "running"
    /\ \A k \in 1..Len(liveContexts) : liveClocks[k] < MaxLiveTime
    /\ liveClocks' = [k \in DOMAIN liveClocks |->
                         IF k <= Len(liveContexts) /\ liveContexts[k] = "running"
                         THEN liveClocks[k] + 1 ELSE liveClocks[k]]
    /\ lastOp' = "live.tick"
    /\ UNCHANGED <<sentAudio, nextStartTimeRef, liveDecoding, scheduled, inputData,
                   pcmBlob, connected,
                   status, isMuted, inputAudioContextRef, outputAudioContextRef,
                   sessionPromiseRef, liveContexts, liveCalls, appVars, imgVars,
                   veoVars, chatVars, playerVars, envVars>>

LiveInit ==
    /\ connected = FALSE
    /\ status = "Disconnected"
    /\ isMuted = FALSE
    /\ inputAudioContextRef = 0
    /\ outputAudioContextRef = 0
    /\ sessionPromiseRef = 0
    /\ liveContexts = <<>>
    /\ liveCalls = <<>>
    /\ sentAudio = 0
    /\ nextStartTimeRef = 0
    /\ liveClocks = [k \in 1..(2 * MaxStarts) |-> 0]
    /\ liveDecoding = <<>>
    /\ scheduled = <<>>
    /\ inputData = <<0, 0>>
    /\ pcmBlob = <<>>

LiveNext ==
    \/ startSession
    \/ LiveMediaSettled
    \/ LiveOnOpen
    \/ LiveOnError
    \/ LiveOnClose
    \/ stopSession
    \/ LiveToggleMute
    \/ LiveUnmount

(***************************************************************************)
(* Player (src/components/Player.tsx).  Volumes and gains are in percent   *)
(* (volume 1.0 is 100), positions in whole seconds, cue times and the      *)
(* subtitle offset in milliseconds.  videoRef is whether videoRef.current  *)
(* is an element, gainNodeRef whether the Audio Setup effect has made the  *)
(* gain node; elementVolume is videoRef.current.volume, gain is            *)
(* gainNodeRef.current.gain.value, currentTime is                          *)
(* videoRef.current.currentTime.  A null loop point is NoPoint.            *)
(* osdTimers is the set of pending timeouts of showOSD, each {id, due};    *)
(* osdTimeoutRef is the id osdTimeoutRef.current holds (0 for null, and it *)
(* keeps the id of a timeout that has fired); playerClock is the time in    *)
(* seconds, and a timeout fires when the clock reaches its due time.       *)
(***************************************************************************)
NoPoint == 0 - 1

Times == 0..MaxTime

\* The deltas adjustVolume is called with, in percent.
VolumeDeltas == {0 - 100, 0 - 10, 0 - 5, 5, 10, 100}

\* setTimeout(..., 2000), in seconds
OsdDelay == 2

\* Fault injection for OsdClearedOnTime: showOSD without the clearTimeout of
\* the timeout it holds.
showOSDNoClear(msg) ==
    LET id == CHOOSE n \in 1..(Cardinality(osdTimers) + 2) :
                  n # osdTimeoutRef /\ \A t \in osdTimers : t.id # n
    IN
    /\ osdMessage' = msg
    /\ osdTimers' = osdTimers \cup {[id |-> id, due |-> playerClock + OsdDelay]}
    /\ osdTimeoutRef' = id
    /\ UNCHANGED playerClock

\* showOSD(msg): the message is set, the timeout the ref holds is cleared
\* and a new one of 2 s is kept in the ref.
showOSD(msg) ==
    LET kept == {t \in osdTimers : t.id # osdTimeoutRef}
        id == CHOOSE n \in 1..(Cardinality(kept) + 2) :
                  n # osdTimeoutRef /\ \A t \in kept : t.id # n
    IN
    /\ osdMessage' = msg
    /\ osdTimers' = kept \cup {[id |-> id, due |-> playerClock + OsdDelay]}
    /\ osdTimeoutRef' = id
    /\ UNCHANGED playerClock

\* Time passes; a timeout that is due fires before the clock moves on.
PlayerTick ==
    /\ playerClock < MaxClock
    /\ \A t \in osdTimers : t.due > playerClock
    /\ playerClock' = playerClock + 1
    /\ lastOp' = "player.tick"
    /\ UNCHANGED <<videoRef, gainNodeRef, volume, elementVolume, gain, loop, currentTime,
                   progress, duration, subtitles, subtitleOffset, subtitleText, osdMessage,
                   osdTimeoutRef, osdTimers, playerOthers>>

\* The timeout of showOSD fires: setOsdMessage(null)
PlayerOsdTimeout ==
    /\ \E t \in osdTimers :
          /\ t.due <= playerClock
          /\ osdTimers' = osdTimers \ {t}
    /\ osdMessage' = NULL
    /\ lastOp' = "player.osdTimeout"
    /\ UNCHANGED <<osdTimeoutRef, playerClock, videoRef, gainNodeRef, volume, elementVolume, gain, loop, currentTime,
                   progress, duration, subtitles, subtitleOffset, subtitleText, playerOthers>>

\* Fault injection for VolumeStaysInRange: the upper clamp left out.
NewVolumeNoCap(vol, delta) == Max(0, vol + delta)

\* Math.max(0, Math.min(2, volume + delta))
NewVolume(vol, delta) == Max(0, Min(200, vol + delta))

\* adjustVolume(delta)
adjustVolume ==
    \E delta \in VolumeDeltas :
        LET newVol == NewVolume(volume, delta) IN
        /\ volume' = newVol
        /\ elementVolume' = IF videoRef THEN Min(100, newVol) ELSE elementVolume
        /\ gain' = IF gainNodeRef THEN Max(100, newVol) ELSE gain
        /\ showOSD("Volume: " \o ToString(newVol) \o "%")
        /\ lastOp' = "player.adjustVolume"
        /\ UNCHANGED <<videoRef, gainNodeRef, loop, currentTime, progress, duration,
                       subtitles, subtitleOffset, subtitleText, playerOthers>>

\* The media element moves its position (playback or a seek by the element).
PlayerAdvance ==
    \E t \in Times :
        /\ videoRef
        /\ currentTime' = t
        /\ lastOp' = "player.advance"
        /\ UNCHANGED <<videoRef, gainNodeRef, volume, elementVolume, gain, loop, progress,
                       duration, subtitles, subtitleOffset, subtitleText, osdMessage,
                       osdTimeoutRef, osdTimers, playerClock, playerOthers>>

\* The loop test of handleTimeUpdate at position ct
LoopBack(ct) ==
    /\ loop.active /\ loop.b # NoPoint /\ loop.a # NoPoint
    /\ ct >= loop.b

\* Fault injection for SubtitleIsFirstMatch: the last matching cue is taken.
FindCueLast(cues, ms, offset) ==
    LET hits == {k \in 1..Len(cues) :
                    ms >= cues[k].start + offset /\ ms <= cues[k].end + offset} IN
    IF hits = {} THEN "" ELSE cues[CHOOSE k \in hits : \A j \in hits : j <= k].text

\* subtitles.find(s => ms >= s.start + offset && ms <= s.end + offset), then
\* currentSub ? currentSub.text : ''
FindCue(cues, ms, offset) ==
    LET hits == {k \in 1..Len(cues) :
                    ms >= cues[k].start + offset /\ ms <= cues[k].end + offset} IN
    IF hits = {} THEN "" ELSE cues[CHOOSE k \in hits : \A j \in hits : k <= j].text

\* handleTimeUpdate: the timeupdate event of the media element
handleTimeUpdate ==
    /\ IF videoRef
       THEN LET ct == currentTime IN
            /\ progress' = ct
            /\ duration' = MaxTime
            /\ currentTime' = IF LoopBack(ct) THEN loop.a ELSE currentTime
            /\ subtitleText' = FindCue(subtitles, ct * 1000, subtitleOffset)
       ELSE UNCHANGED <<progress, duration, currentTime, subtitleText>>
    /\ lastOp' = "player.handleTimeUpdate"
    /\ UNCHANGED <<videoRef, gainNodeRef, volume, elementVolume, gain, loop, subtitles,
                   subtitleOffset, osdMessage, osdTimeoutRef, osdTimers, playerClock,
                   playerOthers>>

\* The cues parseSubtitles can give.
Cues ==
    { [start |-> 0, end |-> 1000, text |-> "one"],
      [start |-> 1000, end |-> 2000, text |-> "two"],
      [start |-> 0, end |-> 3000, text |-> "long"] }

\* reader.onload of handleSubtitleUpload: setSubtitles(parsed); showOSD(...)
handleSubtitleLoaded ==
    \E parsed \in SeqsUpTo(Cues, MaxCues) :
        /\ subtitles' = parsed
        /\ showOSD("Subtitles Loaded")
        /\ lastOp' = "player.subtitlesLoaded"
        /\ UNCHANGED <<videoRef, gainNodeRef, volume, elementVolume, gain, loop, currentTime,
                       progress, duration, subtitleOffset, subtitleText, playerOthers>>

\* EQ_PRESETS: the band gains of each preset, in dB
EQ_PRESETS ==
    [p \in {"Flat", "Rock", "Techno", "Voice", "Classical"} |->
        CASE p = "Flat" -> <<0, 0, 0, 0, 0, 0, 0, 0, 0, 0>>
          [] p = "Rock" -> <<4, 3, 2, 0, 0 - 1, 0 - 1, 0, 2, 3, 4>>
          [] p = "Techno" -> <<4, 3, 0, 0 - 2, 0 - 3, 0, 2, 4, 4, 4>>
          [] p = "Voice" -> <<0 - 2, 0 - 2, 0 - 1, 0, 3, 3, 3, 2, 0, 0 - 2>>
          [] p = "Classical" -> <<3, 2, 1, 0, 0, 0, 1, 2, 3, 3>>]

\* The centre frequencies of the bands the Audio Setup effect makes.
frequencies == <<31, 62, 125, 250, 500, 1000, 2000, 4000, 8000, 16000>>

\* media = null, in the shape of the media a Player is given
NoMedia == [id |-> NULL, type |-> NULL]

\* The media a Player is given, as the fields its code reads: the identity of
\* the item and its type.
PlayerMediaItems ==
    { [id |-> "1", type |-> "video"], [id |-> "2", type |-> "audio"],
      [id |-> "3", type |-> "image"], [id |-> "4", type |-> "video"] }

\* Whether the render of Player for media m has the media element videoRef
\* points to: every item plays in it, and without an item there is none.
ElementRendered(m) == m # NoMedia

\* The values the audio delay control gives, in tenths of a second.
AudioDelays == {0 - 5, 0, 5}

\* The Audio Setup effect after a render with media m: the context is kept
\* before createMediaElementSource, which succeeds (ok) or throws.
AudioSetup(m, ok) ==
    IF videoRef' /\ ~audioCtxRef /\ m.type = "video"
    THEN /\ audioCtxRef' = TRUE
         /\ IF ok
            THEN /\ eqNodesRef' = [i \in 1..Len(frequencies) |-> 0]
                 /\ delayNodeRef' = 0
                 /\ gainNodeRef' = TRUE
                 /\ gain' = 100
            ELSE UNCHANGED <<eqNodesRef, delayNodeRef, gainNodeRef, gain>>
    ELSE UNCHANGED <<audioCtxRef, eqNodesRef, delayNodeRef, gainNodeRef, gain>>

\* The Update EQ effect: eqValues.forEach((val, i) => nodes[i] && (nodes[i].gain.value = val))
UpdateEQ(values, nodes) ==
    [i \in 1..Len(nodes) |-> IF i <= Len(values) THEN values[i] ELSE nodes[i]]

\* The Update Audio Delay effect on the delay time of the delay node, if there
\* is one (NoPoint stands for delayNodeRef.current = null).
UpdateDelay(delay, node) == IF node # NoPoint THEN Max(0, delay) ELSE node

\* The useState defaults of Player and a fresh media element.
PlayerDefaults ==
    /\ eqValues = EQ_PRESETS["Flat"]
    /\ audioDelay = 0
    /\ isPlaying = FALSE
    /\ playbackRate = 100
    /\ playerIsMuted = FALSE
    /\ brightness = 100
    /\ contrast = 100
    /\ saturation = 100
    /\ rotation = 0
    /\ scale = 100
    /\ volume = 100
    /\ elementVolume = 100
    /\ gain = 100
    /\ currentTime = 0
    /\ progress = 0
    /\ duration = 0
    /\ subtitles = <<>>
    /\ subtitleText = ""
    /\ osdMessage = NULL
    /\ osdTimeoutRef = 0
    /\ osdTimers = {}
    /\ playerClock = 0

\* The audio refs after the effects of the mount: the context is kept when the
\* Audio Setup effect ran, the nodes when it succeeded, and the Update effects
\* that follow it gave them the state's values.
MountedGraph ==
    /\ audioCtxRef = (videoRef /\ media.type = "video")
    /\ eqNodesRef = (IF gainNodeRef THEN UpdateEQ(eqValues, [i \in 1..Len(frequencies) |-> 0])
                                    ELSE <<>>)
    /\ delayNodeRef = (IF gainNodeRef THEN UpdateDelay(audioDelay, 0) ELSE NoPoint)

\* Player shown with no media: no element is played and no audio graph made.
PlayerInit ==
    /\ PlayerDefaults
    /\ media = NoMedia
    /\ videoRef = FALSE
    /\ gainNodeRef = FALSE
    /\ MountedGraph
    /\ loop = [a |-> NoPoint, b |-> NoPoint, active |-> FALSE]
    /\ subtitleOffset = 0

\* togglePlay: with a media element, the OSD is shown and isPlaying flips.
togglePlay ==
    /\ IF videoRef
       THEN /\ showOSD(IF isPlaying THEN "Pause" ELSE "Play")
            /\ isPlaying' = ~isPlaying
       ELSE UNCHANGED <<osdMessage, osdTimers, osdTimeoutRef, playerClock, isPlaying>>
    /\ lastOp' = "player.togglePlay"
    /\ UNCHANGED <<videoRef, gainNodeRef, volume, elementVolume, gain, loop, currentTime,
                   progress, duration, subtitles, subtitleOffset, subtitleText,
                   playerAudio, playbackRate, playerIsMuted, brightness, contrast,
                   saturation, rotation, scale, appVars, imgVars, veoVars, chatVars,
                   liveVars, envVars>>

\* Fault injection for MediaChangeResets: the Init effect without
\* setRotation(0).
InitEffectKeepsRotation ==
    IF videoRef'
    THEN /\ currentTime' = 0
         /\ isPlaying' = FALSE
         /\ progress' = 0
         /\ subtitleText' = ""
         /\ subtitles' = <<>>
         /\ brightness' = 100
         /\ contrast' = 100
         /\ saturation' = 100
         /\ scale' = 100
         /\ UNCHANGED rotation
    ELSE UNCHANGED <<currentTime, isPlaying, progress, subtitleText, subtitles,
                     brightness, contrast, saturation, rotation, scale>>

\* The Init effect after a render: with a media element, the element loads
\* the media and the playback, subtitle and picture state is reset.
InitEffect ==
    IF videoRef'
    THEN /\ currentTime' = 0
         /\ isPlaying' = FALSE
         /\ progress' = 0
         /\ subtitleText' = ""
         /\ subtitles' = <<>>
         /\ brightness' = 100
         /\ contrast' = 100
         /\ saturation' = 100
         /\ rotation' = 0
         /\ scale' = 100
    ELSE UNCHANGED <<currentTime, isPlaying, progress, subtitleText, subtitles,
                     brightness, contrast, saturation, rotation, scale>>

\* The mounted Player is given another media: the render, then the effects
\* that depend on [media] in their order, Audio Setup and Init.  A media
\* element that was not there before is a fresh one.
PlayerSetMedia ==
    \E m \in PlayerMediaItems, ok \in BOOLEAN :
        /\ currentView = "PLAYER"
        /\ m # media
        /\ media' = m
        /\ videoRef' = ElementRendered(m)
        /\ elementVolume' = IF videoRef THEN elementVolume ELSE 100
        /\ AudioSetup(m, ok)
        /\ InitEffect
        /\ lastOp' = "player.media"
        /\ UNCHANGED <<volume, loop, duration, subtitleOffset, osdMessage, osdTimeoutRef,
                       osdTimers, playerClock, eqValues, audioDelay, playbackRate,
                       playerIsMuted, appVars, imgVars, veoVars, chatVars, liveVars,
                       envVars>>

\* The presets the user picks in the runs explored.
EqChoices == {"Flat", "Rock"}

\* setEqValues(EQ_PRESETS[p]) with another preset, then the Update EQ effect
PlayerSetEq ==
    \E p \in EqChoices :
        /\ EQ_PRESETS[p] # eqValues
        /\ eqValues' = EQ_PRESETS[p]
        /\ eqNodesRef' = UpdateEQ(eqValues', eqNodesRef)
        /\ lastOp' = "player.setEqValues"
        /\ UNCHANGED <<media, audioCtxRef, audioDelay, delayNodeRef, playerPicture,
                       videoRef, gainNodeRef, volume, elementVolume, gain, loop,
                       currentTime, progress, duration, subtitles, subtitleOffset,
                       subtitleText, osdMessage, osdTimeoutRef, osdTimers, playerClock,
                       appVars, imgVars, veoVars, chatVars, liveVars, envVars>>

\* setAudioDelay(d) with another value, then the Update Audio Delay effect
PlayerSetAudioDelay ==
    \E d \in AudioDelays :
        /\ d # audioDelay
        /\ audioDelay' = d
        /\ delayNodeRef' = UpdateDelay(d, delayNodeRef)
        /\ lastOp' = "player.setAudioDelay"
        /\ UNCHANGED <<media, audioCtxRef, eqValues, eqNodesRef, playerPicture,
                       videoRef, gainNodeRef, volume, elementVolume, gain, loop,
                       currentTime, progress, duration, subtitles, subtitleOffset,
                       subtitleText, osdMessage, osdTimeoutRef, osdTimers, playerClock,
                       appVars, imgVars, veoVars, chatVars, liveVars, envVars>>

AppNext ==
    \/ SidebarHandleFileChange
    \/ handleAddStream
    \/ handleMediaSelect
    \/ setCurrentView

\* Every operation of App on the playlist and the selection.
PlaylistNext ==
    \/ SidebarHandleFileChange
    \/ handleAddStream
    \/ handleMediaSelect
    \/ setCurrentView
    \/ AppAddToPlaylist

VolumeNext ==
    \/ adjustVolume
    \/ PlayerOsdTimeout
    \/ PlayerTick

\* LiveView with the microphone audio of its sessions: sessions are started,
\* stopped and closed, and the user mutes and unmutes.
LiveMicNext ==
    \/ startSession
    \/ LiveMediaSettled
    \/ LiveOnOpen
    \/ LiveOnClose
    \/ stopSession
    \/ LiveToggleMute
    \/ LiveAudioProcess

\* The microphone of an open session delivers its buffers.
BlobNext ==
    \/ LiveAudioProcess

\* LiveView with the audio its sessions play: sessions are started one after
\* the other and stopped, their audio messages arrive and time passes.  A
\* handler at its await resumes in a microtask: only further messages are
\* handled before it.
LivePlaybackNext ==
    \/ /\ liveDecoding = <<>>
       /\ \A i \in 1..Len(liveCalls) : liveCalls[i].pc = "open"
       /\ startSession
    \/ liveDecoding = <<>> /\ LiveMediaSettled
    \/ liveDecoding = <<>> /\ LiveOnOpen
    \/ liveDecoding = <<>> /\ stopSession
    \/ LiveOnMessage
    \/ LiveChunkDecoded
    \/ LiveTick

\* The Player while it stays mounted: the media it is given and its audio and
\* playback controls, with one adjustment of the volume away from 100%.
MediaNext ==
    \/ PlayerSetMedia
    \/ PlayerSetEq
    \/ PlayerSetAudioDelay
    \/ volume = 100 /\ adjustVolume
    \/ togglePlay

LoopNext ==
    \/ PlayerAdvance
    \/ handleTimeUpdate

SubtitleNext ==
    \/ PlayerAdvance
    \/ handleTimeUpdate
    \/ handleSubtitleLoaded

\* GeminiAssistant without speech and unmount.
ChatNext ==
    \/ ChatSendClick
    \/ ChatEnterKey
    \/ ChatSettled
    \/ ChatMountEffect
    \/ ChatSetInput
    \/ handleCapture
    \/ ChatClearContext

TurnsLeft == Cardinality(UserMessages(messages)) < MaxTurns

\* Every operation of the mounted GeminiAssistant, with at most MaxTurns
\* accepted sends, each answered by a non-empty text or a failure.
AssistantSettled == ChatSettledWith({"a reply"})

AssistantNext ==
    \/ TurnsLeft /\ ChatSendClick
    \/ TurnsLeft /\ ChatEnterKey
    \/ AssistantSettled
    \/ ChatMountEffect
    \/ ChatSetInput
    \/ handleCapture
    \/ ChatClearContext
    \/ handleSpeak
    \/ SpeechSettled
    \/ SpeechDecoded
    \/ SpeechEnded

\* Speech playback of GeminiAssistant up to and after its unmount.
SpeechNext ==
    \/ ChatMountEffect
    \/ handleSpeakUpTo(MaxOverlap)
    \/ SpeechSettled
    \/ SpeechDecoded
    \/ SpeechEnded
    \/ ChatUnmount

\* VeoStudio as the user reaches it: its controls while it is shown (the
\* Generate Video button only while enabled), the continuations of its calls
\* whenever their promises settle, and the sidebar's navigation.
VeoViewsNext ==
    \/ currentView = "VEO_STUDIO" /\ ~VeoButtonDisabled /\ VeoHandleGenerate
    \/ currentView = "VEO_STUDIO" /\ VeoSetPrompt
    \/ currentView = "VEO_STUDIO" /\ VeoSetInputImage
    \/ VeoHasKeySettled
    \/ VeoOpenKeySettled
    \/ VeoSubmitSettled
    \/ VeoPollTimer
    \/ VeoPollSettled
    \/ VeoFetchSettled
    \/ VeoBlobSettled
    \/ VeoSetCurrentView

\* The three components that submit requests, one per behaviour: the studio
\* of the view shown, or the assistant panel (explored with the player shown).
SubmitNext ==
    \/ currentView = "IMAGE_STUDIO" /\ ImgNext
    \/ currentView = "VEO_STUDIO" /\ VeoNext
    \/ currentView = "PLAYER" /\ TurnsLeft /\ ChatSendClick
    \/ currentView = "PLAYER" /\ TurnsLeft /\ ChatEnterKey
    \/ currentView = "PLAYER" /\ ChatSettled
    \/ currentView = "PLAYER" /\ ChatMountEffect
    \/ currentView = "PLAYER" /\ ChatSetInput
    \/ currentView = "PLAYER" /\ handleCapture
    \/ currentView = "PLAYER" /\ ChatClearContext

(***************************************************************************)
(* Initial states and specifications.  InitIn(view) is the state after     *)
(* construction with `view` shown (App starts in PLAYER; the others are    *)
(* one setCurrentView away with nothing else changed).  A studio is        *)
(* mounted only while its view is shown, so each component is explored in  *)
(* its own view; the components that never read window.aistudio are        *)
(* explored for one value of it.                                           *)
(***************************************************************************)
InitIn(view) ==
    /\ currentView = view
    /\ playlist = <<>>
    /\ currentMediaId = NULL
    /\ EnvInit
    /\ ImgInit
    /\ VeoInit
    /\ ChatInit
    /\ LiveInit
    /\ PlayerInit
    /\ lastOp = "init"

NoBridge == aistudio = "absent" /\ hasKey = FALSE

Init == InitIn("PLAYER") /\ NoBridge

InitImage == InitIn("IMAGE_STUDIO")

InitVeo == InitIn("VEO_STUDIO")

InitLive == InitIn("LIVE") /\ NoBridge

InitSubmit == InitImage \/ InitVeo \/ Init

\* The item handleUpload makes of a.mp4 uploaded to the empty playlist.
UploadedVideo ==
    [id |-> "1", name |-> "a.mp4", url |-> "blob:a.mp4", type |-> "video",
     mimeType |-> "video/mp4", isStream |-> FALSE]

\* The player showing an uploaded video (handleUpload selects the first upload
\* and shows the player), before any operation of Player.
InitPlaying ==
    /\ currentView = "PLAYER"
    /\ playlist = <<UploadedVideo>>
    /\ currentMediaId = UploadedVideo.id
    /\ EnvInit /\ NoBridge
    /\ ImgInit
    /\ VeoInit
    /\ ChatInit
    /\ LiveInit
    /\ PlayerDefaults
    /\ media = [id |-> UploadedVideo.id, type |-> UploadedVideo.type]
    /\ lastOp = "init"

\* The assistant as mounted (before its mount effect), or after one answered
\* turn: the transcript a handleSend and its reply leave.
InitSpoken ==
    /\ currentView = "PLAYER"
    /\ playlist = <<>>
    /\ currentMediaId = NULL
    /\ EnvInit /\ NoBridge
    /\ ImgInit
    /\ VeoInit
    /\ LiveInit
    /\ PlayerInit
    /\ LET userMsg == [id |-> MessageId(<<WelcomeMessage>>), role |-> "user", text |-> "hi",
                       images |-> <<>>, re |-> NULL]
           asked == <<WelcomeMessage, userMsg>>
       IN messages \in {<<WelcomeMessage>>,
                        Append(asked, ModelMessage(asked, [user |-> userMsg.id], "a reply"))}
    /\ input = ""
    /\ isThinking = FALSE
    /\ chatSession = (IF Len(messages) = 1 THEN NULL ELSE "chat")
    /\ contextImage = NULL
    /\ playingMessageId = NULL
    /\ chatCalls = {}
    /\ speakCalls = <<>>
    /\ audioContextRef = "none"
    /\ chatMounted = TRUE
    /\ lastOp = "init"

\* LiveView with one session open and not muted (Start Live Session, the
\* microphone granted, onopen), and the two samples of the buffer the
\* microphone delivers.
InitBlob ==
    /\ currentView = "LIVE"
    /\ playlist = <<>>
    /\ currentMediaId = NULL
    /\ EnvInit /\ NoBridge
    /\ ImgInit
    /\ VeoInit
    /\ ChatInit
    /\ PlayerInit
    /\ connected = TRUE
    /\ status = "Live"
    /\ isMuted = FALSE
    /\ inputAudioContextRef = 1
    /\ outputAudioContextRef = 2
    /\ sessionPromiseRef = 1
    /\ liveContexts = <<"running", "running">>
    /\ liveCalls = <<[pc |-> "open", muted |-> FALSE, proc |-> 1]>>
    /\ sentAudio = 0
    /\ nextStartTimeRef = 0
    /\ liveClocks = [k \in 1..(2 * MaxStarts) |-> 0]
    /\ liveDecoding = <<>>
    /\ scheduled = <<>>
    /\ inputData \in [1..2 -> Samples]
    /\ pcmBlob = <<>>
    /\ lastOp = "init"

NoLoop == [a |-> NoPoint, b |-> NoPoint, active |-> FALSE]

\* Volume control: with or without a media element, and with the gain node
\* the Audio Setup effect made at mount or without it (the setup threw).
InitVolume ==
    /\ InitPlaying
    /\ videoRef \in BOOLEAN
    /\ gainNodeRef \in {g \in BOOLEAN : g => videoRef}
    /\ MountedGraph
    /\ loop = NoLoop
    /\ subtitleOffset = 0

\* Time updates for every value of the loop state.
InitLoop ==
    /\ InitPlaying
    /\ videoRef = TRUE
    /\ gainNodeRef = FALSE
    /\ MountedGraph
    /\ loop \in [a : Times \cup {NoPoint}, b : Times \cup {NoPoint}, active : BOOLEAN]
    /\ subtitleOffset = 0

SubtitleOffsets == {0 - 1000, 0, 1000}

\* The Player as mounted with no media, or in use: its picture, rate, mute,
\* subtitle and loop controls set by the user, with the media it was mounted
\* with.
InitMedia ==
    /\ currentView = "PLAYER"
    /\ playlist = <<>>
    /\ currentMediaId = NULL
    /\ EnvInit /\ NoBridge
    /\ ImgInit
    /\ VeoInit
    /\ ChatInit
    /\ LiveInit
    /\ \/ PlayerInit
       \/ /\ volume = 100
          /\ elementVolume = 100
          /\ gain = 100
          /\ duration = MaxTime
          /\ osdMessage = NULL
          /\ osdTimeoutRef = 0
          /\ osdTimers = {}
          /\ playerClock = 0
          /\ eqValues = EQ_PRESETS["Flat"]
          /\ audioDelay = 0
          /\ media \in {m \in PlayerMediaItems : m.id \in {"1", "2"}}
          /\ videoRef = ElementRendered(media)
          /\ gainNodeRef \in {g \in BOOLEAN : g => media.type = "video"}
          /\ MountedGraph
          /\ \E used \in BOOLEAN :
                /\ currentTime = (IF used THEN 2 ELSE 0)
                /\ progress = currentTime
                /\ subtitles = (IF used THEN <<[start |-> 0, end |-> 3000, text |-> "long"]>>
                                       ELSE <<>>)
                /\ subtitleText = (IF used THEN "long" ELSE "")
                /\ isPlaying = used
                /\ playbackRate = (IF used THEN 150 ELSE 100)
                /\ playerIsMuted = used
                /\ brightness = (IF used THEN 150 ELSE 100)
                /\ contrast = (IF used THEN 80 ELSE 100)
                /\ saturation = (IF used THEN 0 ELSE 100)
                /\ rotation = (IF used THEN 90 ELSE 0)
                /\ scale = (IF used THEN 150 ELSE 100)
                /\ loop = (IF used THEN [a |-> 1, b |-> 2, active |-> TRUE] ELSE NoLoop)
                /\ subtitleOffset = (IF used THEN 1000 ELSE 0)
    /\ lastOp = "init"

\* Time updates for every subtitle offset, with the cues loaded by the user.
InitSubtitles ==
    /\ InitPlaying
    /\ videoRef = TRUE
    /\ gainNodeRef = FALSE
    /\ MountedGraph
    /\ loop = NoLoop
    /\ subtitleOffset \in SubtitleOffsets

SpecApp == Init /\ [][AppNext]_vars

SpecPlaylist == Init /\ [][PlaylistNext]_vars

SpecVolume == InitVolume /\ [][VolumeNext]_vars

SpecBlob == InitBlob /\ [][BlobNext]_vars

SpecLiveMic == InitLive /\ [][LiveMicNext]_vars

SpecLivePlayback == InitLive /\ [][LivePlaybackNext]_vars

SpecMedia == InitMedia /\ [][MediaNext]_vars

SpecLoop == InitLoop /\ [][LoopNext]_vars

SpecSubtitles == InitSubtitles /\ [][SubtitleNext]_vars

SpecImage == InitImage /\ [][ImgNext]_vars

SpecVeo == InitVeo /\ [][VeoNext]_vars

SpecVeoViews == InitVeo /\ [][VeoViewsNext]_vars

SpecChat == Init /\ [][ChatNext]_vars

SpecAssistant == Init /\ [][AssistantNext]_vars

SpecSubmit == InitSubmit /\ [][SubmitNext]_vars

SpecSpeech == InitSpoken /\ [][SpeechNext]_vars

SpecLive == InitLive /\ [][LiveNext]_vars


(***************************************************************************)
(* Properties.                                                             *)
(***************************************************************************)

\* C1: in ImageStudio a call of handleAction while the prompt is empty is a
\* no-op: isProcessing, error, selectedImageForEdit and the playlist are
\* unchanged and no request is sent (no call record is made or advanced).
ImgEmptyPromptNoOp ==
    [][(lastOp' \in {"img.handleAction", "img.handleAction.return"} /\ imgPrompt = "")
        => UNCHANGED <<isProcessing, imgError, selectedImageForEdit, playlist, imgCalls>>]_vars

\* handleAction has returned at its guard while an earlier call was in flight.
ImgEmptyPromptReturned ==
    /\ lastOp = "img.handleAction.return"
    /\ imgPrompt = ""
    /\ isProcessing
    /\ \E i \in 1..Len(imgCalls) : imgCalls[i].pc = "request"

VeoCallStep == lastOp' \in {"veo.handleGenerate", "veo.handleGenerate.return"}

\* C2 as stated: in VeoStudio a call of handleGenerate while the prompt is
\* empty is a no-op whether or not a reference image is attached.
VeoEmptyPromptNoOp ==
    [][(VeoCallStep /\ veoPrompt = "")
        => UNCHANGED <<isGenerating, veoError, playlist, veoCalls>>]_vars

\* C2, amended: a call of handleGenerate while the prompt is empty is a no-op
\* when no reference image is attached; with a reference image attached it is
\* accepted: isGenerating becomes true, the error is cleared and one call of
\* generateVeoVideo with the empty prompt and the image is started.
VeoNothingToGenerateNoOp ==
    [][/\ (VeoCallStep /\ veoPrompt = "" /\ inputImage = NULL)
            => UNCHANGED <<isGenerating, veoError, playlist, veoCalls>>
       /\ (VeoCallStep /\ veoPrompt = "" /\ inputImage # NULL)
            => /\ isGenerating'
               /\ veoError' = NULL
               /\ Len(veoCalls') = Len(veoCalls) + 1
               /\ veoCalls'[Len(veoCalls')].prompt = ""
               /\ veoCalls'[Len(veoCalls')].image = inputImage
               /\ SubSeq(veoCalls', 1, Len(veoCalls)) = veoCalls]_vars

\* handleGenerate has returned at its guard: no prompt and no image.
VeoEmptyReturned ==
    /\ lastOp = "veo.handleGenerate.return"
    /\ veoPrompt = ""
    /\ inputImage = NULL
    /\ veoCalls = <<>>
    /\ ~isGenerating

\* The step is handleUpload(files).
UploadStep(files) == Len(files) > 0 /\ lastOp' = "handleUpload" /\ handleUpload(files)

\* C3: handleUpload of n files grows the playlist by exactly n; the new
\* entries are at the end, the i-th of them made from the i-th file, and the
\* earlier entries are the same entries in the same order before them.
UploadAppendsInOrder ==
    [][\A files \in SeqsUpTo(Files, MaxFiles) :
        UploadStep(files) =>
            /\ Len(playlist') = Len(playlist) + Len(files)
            /\ SubSeq(playlist', 1, Len(playlist)) = playlist
            /\ \A i \in 1..Len(files) :
                 /\ playlist'[Len(playlist) + i].name = files[i].name
                 /\ playlist'[Len(playlist) + i].type = MediaType(files[i])]_vars

\* Two different files have been uploaded at once to a playlist that had an entry.
UploadedTwoAfterOne ==
    /\ lastOp = "handleUpload"
    /\ Len(playlist) = 3
    /\ playlist[1].isStream
    /\ playlist[2].name = "b.mp3"
    /\ playlist[3].name = "a.mp4"

\* What call c of generateVeoVideo may have done given the done flag it holds.
VeoCallRespectsDone(c) ==
    /\ c.pc \in {"wait", "poll"} => ~c.done
    /\ (c.fetched \/ c.pc \in {"fetch", "blob"} \/ c.ret \in {"url", "null"}) => c.done

\* C4: generateVeoVideo waits and polls again whenever the operation it holds
\* is not done, sends a poll only after a wait and only while that operation
\* is not done, and has fetched the uri or returned a value only with an
\* operation that is done.
VeoPollsUntilDone ==
    /\ [](\A i \in 1..Len(veoCalls) : VeoCallRespectsDone(veoCalls[i]))
    /\ [][\A i \in 1..Len(veoCalls) :
            /\ veoCalls'[i].polls > veoCalls[i].polls
                => /\ ~veoCalls[i].done
                   /\ veoCalls[i].pc = "wait"
                   /\ veoCalls'[i].polls = veoCalls[i].polls + 1
            /\ (veoCalls[i].pc \in {"submit", "poll"} /\ veoCalls'[i].pc # veoCalls[i].pc
                    /\ lastOp' # "veo.failed" /\ ~veoCalls'[i].done)
                => veoCalls'[i].pc = "wait"]_vars

\* A call has polled twice, seen the job done and gone on to fetch the uri.
VeoFetchedAfterPolls ==
    \E i \in 1..Len(veoCalls) :
        /\ veoCalls[i].pc = "fetch"
        /\ veoCalls[i].polls = 2
        /\ veoCalls[i].done

\* C5: every failed external request ends with a message the user sees: a
\* failed image or video request sets the studio's error, a failed chat
\* request appends the error message to the transcript, and a failed speech
\* request adds a message to what the assistant shows.
FailuresAreShown ==
    [][/\ lastOp' = "img.failed" => imgError' # NULL
       /\ lastOp' = "veo.failed" => veoError' # NULL
       /\ lastOp' = "chat.failed"
            => /\ Len(messages') = Len(messages) + 1
               /\ messages'[Len(messages')].text = ChatErrorMsg
       /\ lastOp' = "chat.speak.failed" => Len(messages') = Len(messages) + 1]_vars

\* C6: at most one sendMessageToChat request is outstanding at any time.
OneChatRequestAtATime == Cardinality(chatCalls) <= 1

\* user, model, user, model after the welcome message
Alternates(msgs) ==
    \A k \in 2..Len(msgs) : msgs[k].role = IF k % 2 = 0 THEN "user" ELSE "model"

\* Each model message after the welcome message was produced for the message
\* immediately before it.
RepliesToPrevious(msgs) ==
    \A k \in 2..Len(msgs) : msgs[k].role = "model" => msgs[k].re = msgs[k - 1].id

\* C7: whenever no chat request is in flight the transcript alternates user,
\* model after the welcome message, and each model message is the reply or
\* the error produced for the user message immediately before it.
TranscriptAlternates ==
    chatCalls = {} => Alternates(messages) /\ RepliesToPrevious(messages)

\* C8: once LiveView has unmounted every audio context it made is closed, and
\* once GeminiAssistant has unmounted its audio context is not running.
ContextsClosedAfterUnmount ==
    /\ ~LiveMounted => \A k \in 1..Len(liveContexts) : liveContexts[k] = "closed"
    /\ ~chatMounted => audioContextRef # "running"

\* The calls that issue a submission request in the step.
ImgIssued ==
    {i \in 1..Len(imgCalls') :
        imgCalls'[i].subs > (IF i <= Len(imgCalls) THEN imgCalls[i].subs ELSE 0)}

VeoIssued ==
    {i \in 1..Len(veoCalls') :
        veoCalls'[i].subs > (IF i <= Len(veoCalls) THEN veoCalls[i].subs ELSE 0)}

ChatIssued == chatCalls' \ chatCalls

\* No continuation that ends a request (its response, its failure, and for a
\* video the polls, the fetch and the blob after it) issues a submission.
NoResubmission ==
    lastOp' \in {"img.added", "img.failed", "veo.submitted", "veo.poll", "veo.polled",
                 "veo.fetched", "veo.added", "veo.failed", "chat.replied", "chat.failed"}
        => ImgIssued = {} /\ VeoIssued = {} /\ ChatIssued = {}

\* C9 as stated: a call that passed the guard of its handler has issued
\* exactly one submission request when a continuation ends it, and no
\* continuation that ends a request issues another.
ExactlyOneSubmission ==
    [][/\ \A i \in 1..Len(imgCalls) :
            (imgCalls[i].pc # "done" /\ imgCalls'[i].pc = "done") => imgCalls'[i].subs = 1
       /\ \A i \in 1..Len(veoCalls) :
            (veoCalls[i].pc # "done" /\ veoCalls'[i].pc = "done") => veoCalls'[i].subs = 1
       /\ NoResubmission]_vars

\* A call has issued one request if it got as far as the service.
SubmittedOnceServed ==
    /\ \A i \in 1..Len(imgCalls) :
        /\ imgCalls[i].subs <= 1
        /\ (imgCalls[i].pc = "request" \/ imgCalls[i].out = "added") => imgCalls[i].subs = 1
    /\ \A i \in 1..Len(veoCalls) :
        /\ veoCalls[i].subs <= 1
        /\ (veoCalls[i].pc \in {"submit", "wait", "poll", "fetch", "blob"}
                \/ veoCalls[i].ret \in {"url", "null", "throw"}) => veoCalls[i].subs = 1
    /\ \A call \in chatCalls : call.subs = 1

\* C9, amended: a call that passed the guard of its handler issues at most one
\* submission request, and exactly one if it reaches the service call (a
\* studio call that fails at the key selection, or an edit without a source
\* image, issues none); handleSend issues its one request at once; and no
\* continuation that ends a request issues another.
OneSubmissionNoRetry ==
    /\ []SubmittedOnceServed
    /\ [][/\ lastOp' = "img.handleAction"
                => ImgIssued \subseteq {Len(imgCalls')} /\ Len(imgCalls') = Len(imgCalls) + 1
          /\ lastOp' = "veo.handleGenerate"
                => VeoIssued \subseteq {Len(veoCalls')} /\ Len(veoCalls') = Len(veoCalls) + 1
          /\ lastOp' = "chat.handleSend"
                => Cardinality(ChatIssued) = 1 /\ chatCalls \subseteq chatCalls'
          /\ lastOp' \in {"img.hasKey.true", "img.openKey.resolved"}
                => Cardinality(ImgIssued) = 1 /\ Len(imgCalls') = Len(imgCalls)
          /\ lastOp' \in {"veo.hasKey.true", "veo.openKey.resolved"}
                => Cardinality(VeoIssued) = 1 /\ Len(veoCalls') = Len(veoCalls)
          /\ NoResubmission]_vars

\* A request of ImageStudio has failed and its call has ended with the one
\* request it issued.
ImgFailedAfterOneRequest ==
    /\ lastOp = "img.failed"
    /\ imgError # NULL
    /\ \E i \in 1..Len(imgCalls) :
        imgCalls[i].pc = "done" /\ imgCalls[i].out = "error" /\ imgCalls[i].subs = 1

\* C10: every operation of GeminiAssistant leaves the message list unchanged
\* or adds one message at its end, and the welcome message stays first.
TranscriptAppendOnly ==
    /\ [](Len(messages) >= 1 /\ messages[1] = WelcomeMessage)
    /\ [][\/ messages' = messages
          \/ /\ Len(messages') = Len(messages) + 1
             /\ SubSeq(messages', 1, Len(messages)) = messages]_vars

\* A reply has been appended while a message is being read aloud.
RepliedWhileSpeaking ==
    /\ lastOp = "chat.replied"
    /\ Len(messages) = 3
    /\ messages[3].role = "model"
    /\ \E i \in 1..Len(speakCalls) : speakCalls[i].pc = "playing"

\* C11: the playlist only grows: handleUpload keeps the playlist as the
\* beginning of the new one, handleAddStream and addToPlaylist put exactly
\* one entry before it, and no other operation of App changes it.
PlaylistOnlyGrows ==
    [][/\ lastOp' = "handleUpload"
            => /\ Len(playlist') > Len(playlist)
               /\ SubSeq(playlist', 1, Len(playlist)) = playlist
       /\ lastOp' \in {"handleAddStream", "addToPlaylist"}
            => /\ Len(playlist') = Len(playlist) + 1
               /\ Tail(playlist') = playlist
       /\ lastOp' \notin {"handleUpload", "handleAddStream", "addToPlaylist"}
            => playlist' = playlist]_vars

\* A generated item has been put before an uploaded one and a stream.
GeneratedOnTop ==
    /\ lastOp = "addToPlaylist"
    /\ Len(playlist) = 3
    /\ playlist[1].type = "image"
    /\ \E i \in 2..3 : playlist[i].isStream
    /\ \E i \in 2..3 : playlist[i].name = "a.mp4"

\* C12: after any sequence of adjustVolume calls the volume is within
\* [0, 2] (0..200 percent); after each call the element's volume is
\* min(1, volume) and, when the gain node exists, its gain is max(1, volume),
\* so that element volume times gain is the volume.
VolumeStaysInRange ==
    /\ [](volume \in 0..200)
    /\ [][lastOp' = "player.adjustVolume" =>
            /\ videoRef => elementVolume' = (IF volume' <= 100 THEN volume' ELSE 100)
            /\ gainNodeRef => gain' = (IF volume' >= 100 THEN volume' ELSE 100)
            /\ (videoRef /\ gainNodeRef) => elementVolume' * gain' = volume' * 100]_vars

\* The volume has been raised to the top: the element is at 1 and the gain at 2.
VolumeBoosted ==
    /\ lastOp = "player.adjustVolume"
    /\ volume = 200
    /\ elementVolume = 100
    /\ gainNodeRef /\ gain = 200

\* C13: with the loop active and both points set, a time update at or beyond
\* B moves the position to A and leaves it below B; with the loop inactive
\* or a point unset a time update leaves the position as it is.
LoopReturnsBelowB ==
    [][lastOp' = "player.handleTimeUpdate" =>
        IF loop.active /\ loop.a # NoPoint /\ loop.b # NoPoint
        THEN currentTime >= loop.b => (currentTime' = loop.a /\ currentTime' < loop.b)
        ELSE currentTime' = currentTime]_vars

\* The cues whose shifted interval contains the position of the time update.
CuesAt(ms) ==
    {k \in 1..Len(subtitles) :
        /\ subtitles[k].start + subtitleOffset <= ms
        /\ ms <= subtitles[k].end + subtitleOffset}

\* C14: after a time update at position t the subtitle text is the text of
\* the first cue in list order whose interval shifted by subtitleOffset
\* contains t * 1000 ms, both ends included, and is empty when there is none.
SubtitleIsFirstMatch ==
    [][(lastOp' = "player.handleTimeUpdate" /\ videoRef) =>
        LET hits == CuesAt(currentTime * 1000) IN
        /\ hits = {} => subtitleText' = ""
        /\ \A k \in hits : (\A j \in hits : k <= j) => subtitleText' = subtitles[k].text]_vars

\* Two cues contain the position (one of them ending exactly there, shifted)
\* and the first of the list is shown.
FirstOfTwoCuesShown ==
    /\ lastOp = "player.handleTimeUpdate"
    /\ subtitleOffset = 1000
    /\ progress = 2
    /\ Len(subtitles) = 2
    /\ subtitles[1].text = "one"
    /\ subtitles[2].text = "long"
    /\ subtitleText = "one"


\* C18: currentMediaId is always either null or the id of an entry of the
\* playlist.
SelectionIsInPlaylist ==
    \/ currentMediaId = NULL
    \/ \E i \in 1..Len(playlist) : playlist[i].id = currentMediaId

\* An upload into an empty library selected its first file, and more items
\* were put around it afterwards.
SelectedAmongOthers ==
    /\ lastOp = "addToPlaylist"
    /\ Len(playlist) = 3
    /\ currentMediaId # NULL
    /\ playlist[2].id = currentMediaId
    /\ playlist[2].name = "a.mp4"

\* C19: handleUpload selects the first uploaded item and switches to the
\* player view only when no media is selected, and otherwise leaves
\* currentMediaId and the view unchanged; addToPlaylist never changes either;
\* handleAddStream always selects the new stream and switches to the player.
SelectionOnlyWhenStated ==
    [][/\ (lastOp' = "handleUpload" /\ currentMediaId = NULL)
            => /\ currentMediaId' = playlist'[Len(playlist) + 1].id
               /\ currentView' = "PLAYER"
       /\ (lastOp' = "handleUpload" /\ currentMediaId # NULL)
            => /\ currentMediaId' = currentMediaId
               /\ currentView' = currentView
       /\ lastOp' = "addToPlaylist"
            => /\ currentMediaId' = currentMediaId
               /\ currentView' = currentView
       /\ lastOp' = "handleAddStream"
            => /\ currentMediaId' = playlist'[1].id
               /\ playlist'[1].isStream
               /\ currentView' = "PLAYER"]_vars

\* Files were uploaded from another view while a stream was selected: the
\* stream is still selected and the view is still the other one.
UploadKeptSelection ==
    /\ lastOp = "handleUpload"
    /\ currentView = "LIVE"
    /\ \E i \in 1..Len(playlist) :
          playlist[i].id = currentMediaId /\ playlist[i].isStream


\* C17: in the edit tab, handleAction with a non-empty prompt and no selected
\* source image sends no request to the image service, sets the error to
\* 'Please select an image to edit first.', adds nothing to the playlist and
\* ends, in the same step, with isProcessing false.
EditWithoutImageFails ==
    [][(/\ lastOp' = "img.handleAction"
        /\ activeTab = "edit"
        /\ imgPrompt # ""
        /\ selectedImageForEdit = NULL)
        => /\ ImgIssued = {}
           /\ Len(imgCalls') = Len(imgCalls) + 1
           /\ imgCalls'[Len(imgCalls')].pc = "done"
           /\ imgCalls'[Len(imgCalls')].subs = 0
           /\ imgError' = "Please select an image to edit first."
           /\ playlist' = playlist
           /\ isProcessing' = FALSE]_vars

\* An edit without a source image has just failed, after an earlier call of
\* the generate tab had added its image.
EditRefusedAfterGenerate ==
    /\ lastOp = "img.handleAction"
    /\ activeTab = "edit"
    /\ selectedImageForEdit = NULL
    /\ imgError = EditFirstMsg
    /\ ~isProcessing
    /\ Len(imgCalls) = 2
    /\ imgCalls[1].out = "added"
    /\ imgCalls[2].out = "error" /\ imgCalls[2].subs = 0


ModelMessages(msgs) == {k \in 2..Len(msgs) : msgs[k].role = "model"}

\* C20: handleSend changes nothing when the trimmed input is empty and no
\* screenshot is held, or when there is no chat session; every other call
\* appends exactly one user message in the same step, and the completion of
\* its request appends exactly one model message.  At all times the model
\* messages after the welcome message are at most as many as the user
\* messages, and whenever no request is in flight they are as many and
\* isThinking is false.
SendAddsOneOfEach ==
    /\ [](/\ Cardinality(ModelMessages(messages)) <= Cardinality(UserMessages(messages))
          /\ chatCalls = {} =>
                /\ Cardinality(ModelMessages(messages)) = Cardinality(UserMessages(messages))
                /\ ~isThinking)
    /\ [][/\ lastOp' \in {"chat.handleSend", "chat.handleSend.return"} =>
                IF (Trim(input) = "" /\ contextImage = NULL) \/ chatSession = NULL
                THEN UNCHANGED chatVars
                ELSE /\ Len(messages') = Len(messages) + 1
                     /\ SubSeq(messages', 1, Len(messages)) = messages
                     /\ messages'[Len(messages')].role = "user"
                     /\ Cardinality(ChatIssued) = 1
          /\ lastOp' \in {"chat.replied", "chat.failed"} =>
                /\ Len(messages') = Len(messages) + 1
                /\ SubSeq(messages', 1, Len(messages)) = messages
                /\ messages'[Len(messages')].role = "model"
                /\ Cardinality(chatCalls \ chatCalls') = 1
                /\ ChatIssued = {}]_vars

\* Two sends were accepted one after the other and both requests have
\* completed, the second one with an error.
TwoSendsBothAnswered ==
    /\ lastOp = "chat.failed"
    /\ chatCalls = {}
    /\ ~isThinking
    /\ Len(messages) = 5
    /\ messages[2].role = "user" /\ messages[3].role = "user"
    /\ messages[5].text = ChatErrorMsg


VeoPending == {i \in 1..Len(veoCalls) : veoCalls[i].pc # "done"}

\* C16: while VeoStudio is shown, isGenerating is true as long as an accepted
\* handleGenerate has not finished, and the step that finishes one leaves
\* isGenerating false, having either added exactly one video to the playlist
\* or set the error banner.
VeoBusyUntilFinished ==
    /\ []((currentView = "VEO_STUDIO" /\ VeoPending # {}) => isGenerating)
    /\ [][\A i \in VeoPending :
            veoCalls'[i].pc = "done" =>
                /\ ~isGenerating'
                /\ \/ /\ Len(playlist') = Len(playlist) + 1
                      /\ playlist'[1].type = "video"
                      /\ veoError' = veoError
                   \/ /\ playlist' = playlist
                      /\ veoError' # NULL]_vars


LiveSessionsUp == {i \in 1..Len(liveCalls) : liveCalls[i].pc \in {"connecting", "open"}}

\* C22: at most one Gemini Live session is connecting or open at any time,
\* and startSession does not begin while one is.
OneLiveSession ==
    /\ [](Cardinality(LiveSessionsUp) <= 1)
    /\ [][lastOp' = "live.startSession" => LiveSessionsUp = {}]_vars

\* C23: connected is true exactly when status is 'Live'.
ConnectedIffLive == connected <=> (status = "Live")


\* C27: while GeminiAssistant is shown and a speech request of any message is
\* loading or playing, playingMessageId is the id of a message whose speech
\* is loading or playing, and at most one speech is playing.
SpeechIsTracked ==
    chatMounted =>
        /\ speakCalls # <<>> =>
                \E i \in 1..Len(speakCalls) : speakCalls[i].msg = playingMessageId
        /\ Cardinality({i \in 1..Len(speakCalls) : speakCalls[i].pc = "playing"}) <= 1


\* C29: at most one OSD timeout is pending; while a message is displayed the
\* pending timeout is the one of the most recent showOSD call (the one the
\* ref holds), due 2 s after that call and not yet past; a timeout that fires
\* is that one, it fires 2 s after the most recent call, and it clears the
\* message.
OsdClearedOnTime ==
    /\ [](/\ Cardinality(osdTimers) <= 1
          /\ osdMessage # NULL =>
                \E t \in osdTimers : t.id = osdTimeoutRef /\ t.due >= playerClock)
    /\ [][/\ lastOp' \in {"player.adjustVolume", "player.subtitlesLoaded"} =>
                /\ osdMessage' # NULL
                /\ \E t \in osdTimers' :
                      t.id = osdTimeoutRef' /\ t.due = playerClock + OsdDelay
          /\ lastOp' = "player.osdTimeout" =>
                /\ \A t \in osdTimers \ osdTimers' :
                      t.id = osdTimeoutRef /\ t.due = playerClock
                /\ osdMessage # NULL
                /\ osdMessage' = NULL]_vars

\* A message shown a second before was replaced, and the second message has
\* been cleared 2 s after it was shown.
SecondOsdCleared ==
    /\ lastOp = "player.osdTimeout"
    /\ playerClock = 3
    /\ osdTimeoutRef = 2
    /\ osdMessage = NULL
    /\ osdTimers = {}


(***************************************************************************)
(* The audio graph of Player.                                              *)
(***************************************************************************)
\* C21: whenever the audio graph of Player exists, the gain of band i is
\* eqValues[i] for each of the 10 bands, the delay of the delay node is
\* max(0, audioDelay) and the gain of the gain node is max(1, volume), also
\* when the graph is made after the equalizer, the delay or the volume was
\* changed.
AudioGraphFollowsState ==
    gainNodeRef =>
        /\ Len(eqNodesRef) = 10
        /\ \A i \in 1..10 : eqNodesRef[i] = eqValues[i]
        /\ delayNodeRef = Max(0, audioDelay)
        /\ gain = Max(100, volume)


MuteStopsAudio ==
    [][lastOp' = "live.audioprocess" =>
          sentAudio' = sentAudio + (IF isMuted THEN 0 ELSE 1)]_vars

\* C25: the audio chunks of one live session are scheduled in arrival order
\* and do not overlap: each chunk starts at or after the start of the previous
\* chunk plus its duration, also when the onmessage handlers interleave at
\* their await.
ChunksInArrivalOrder ==
    \A j, k \in 1..Len(scheduled) :
        (j < k /\ scheduled[j].session = scheduled[k].session) =>
            /\ scheduled[j].n < scheduled[k].n
            /\ scheduled[k].start >= scheduled[j].start + scheduled[j].duration

\* The second chunk of a session arrived while the first was at its await, and
\* both are scheduled.
InterleavedChunksScheduled ==
    /\ lastOp = "live.chunkDecoded"
    /\ Len(scheduled) >= 2
    /\ scheduled[2].session = scheduled[1].session
    /\ scheduled[2].behind = 1
    /\ scheduled[2].start = scheduled[1].start + scheduled[1].duration

\* The end of the chunk scheduled last before chunk k on the output context
\* of chunk k; 0 when there is none.
PreviousEnd(k) ==
    LET before == {j \in 1..(k - 1) : scheduled[j].ctx = scheduled[k].ctx} IN
    IF before = {} THEN 0
    ELSE LET j == CHOOSE x \in before : \A y \in before : y <= x
         IN scheduled[j].start + scheduled[j].duration

\* C26: no stale delay: each chunk starts exactly at the larger of the current
\* time of the output context when its message was handled and the end of the
\* previous chunk scheduled on that context; so the first chunk of a session
\* started after an earlier one was stopped starts at the current time of the
\* new context.
NoStaleDelay ==
    \A k \in 1..Len(scheduled) :
        scheduled[k].start = Max(scheduled[k].at, PreviousEnd(k))


\* C30: createBlob converts every sample s of [-1, 1] to a signed 16-bit
\* integer without wraparound: the result has the sign of s and is monotonic
\* in s, and s = 1.0 gives the largest positive 16-bit value, never a negative
\* one.
BlobKeepsSignAndOrder ==
    pcmBlob # <<>> =>
        \A i, j \in 1..Len(inputData) :
            /\ inputData[i] > 0 => pcmBlob[i] >= 0
            /\ inputData[i] < 0 => pcmBlob[i] <= 0
            /\ inputData[i] = SampleSteps => pcmBlob[i] = 32767
            /\ inputData[i] <= inputData[j] => pcmBlob[i] <= pcmBlob[j]
=============================================================================
